---- MODULE Spec2Model ----
(***************************************************************************)
(* Verification model of ti-radar.                                         *)
(*                                                                         *)
(*   Radar   : api/radar.py analyze_technology, the fan-out/fan-in          *)
(*             orchestrator over the eight panel engines.                   *)
(*   Token   : infrastructure/adapters/openaire_adapter.py, the access      *)
(*             token refresh ahead of a count_by_year batch.                *)
(*   Gleif   : infrastructure/adapters/gleif_adapter.py, entity resolution  *)
(*             with a semaphore, a pacing delay and a persistent cache.     *)
(*   Papers  : infrastructure/adapters/semantic_scholar_adapter.py, the     *)
(*             paginated paper search.                                      *)
(*                                                                         *)
(* Each subsystem has its own variables and its own specification; the      *)
(* variables of the other subsystems stay at their initial values.          *)
(***************************************************************************)
EXTENDS Integers, Sequences, FiniteSets, TLC

VARIABLES
    \* ---- Radar (api/radar.py) ----
    rpc,                 \* position of analyze_technology
    request,             \* the posted body: [techLen, years]
    stores,              \* [patents, cordis]: which store files exist
    st,                  \* st[i]: state of the i-th wait_for(engine) task
    now,                 \* seconds since dispatch (event-loop clock)
    panels,              \* the list 'panels' after the unpacking loop
    all_sources,
    all_methods,
    all_warnings,
    data_complete_until,
    response,            \* the RadarResponse, or NoResponse
    propagated,          \* class of an exception leaving analyze_technology
    \* ---- Token (infrastructure/adapters/openaire_adapter.py) ----
    tclock,              \* time.time(), in seconds
    cached_token,        \* module level _cached_token with _cached_token_exp
    configured_token,    \* settings.openaire_access_token
    refresh_configured,  \* bool(self._refresh_token) of the adapters
    adapter,             \* adapter[b]: [pc, token] of the batch b's adapter
    refresh_requests,    \* GETs sent to _REFRESH_URL
    refresh_failures,    \* of which failed
    bearer,              \* bearer[b]: token the batch's year requests carry
    \* ---- Gleif (infrastructure/adapters/gleif_adapter.py) ----
    wall_day,            \* datetime.now(), in days
    gleif_cache,         \* table gleif_cache: key -> row
    sem_holders,         \* tasks inside "async with self._semaphore"
    caller,              \* caller[c]: the call of task c and its position
    since_end,           \* ms since the last outbound call ended, -1: none yet
    last_gap,            \* since_end when the latest request went out
    calls_made,          \* invocations so far
    lookups,             \* completed lookups: set of [key, answer, day]
    \* ---- Papers (infrastructure/adapters/semantic_scholar_adapter.py) ----
    ppc,                 \* position of search_papers
    limit,               \* its limit argument
    all_papers,
    offset,
    req_limit,           \* "limit" parameter of the page request under way
    requests,            \* page requests sent
    papers,              \* len(papers) of the latest answer
    total,               \* "total" of the latest answer
    returned,        \* the list search_papers returned
    \* ---- Counts (openaire_adapter.py count_by_year) ----
    cy_pc,           \* position of count_by_year
    cy_range,        \* [start, end]: its start_year and end_year
    cy_results,      \* per year: the state of its _count_single_year task
    cy_arrivals,     \* years in the order their responses arrived
    yearly,          \* the list count_by_year returned
    \* ---- Sampling (stratified_sample of domain/sampling.py) ----
    sp_pc,           \* position in stratified_sample
    patent_data,     \* the year of each patent record, in input order
    target_size,     \* target sample size
    census_threshold, \* strata up to this size are taken in full
    strata_sizes,    \* year -> number of records (len of the index list)
    allocation,      \* year -> n_h
    sample_count,    \* year -> number of selected records
    sample_size,     \* len(sampled_data)
    \* ---- Dates (get_last_full_year of the two repositories) ----
    lfy_pc,          \* position in get_last_full_year
    table,           \* the store that is asked, patents or projects
    stored_dates,    \* publication_date / start_date values of the rows
    last_full_year,  \* the returned value
    \* ---- Fts (full-text queries of the two repositories) ----
    fts_query,       \* the technology string of the request
    matched,         \* the MATCH parameters bound so far, with table and method
    \* ---- Series (per-year series and totals of the landscape, funding and research impact panels) ----
    se_pc,           \* position in the panel use case
    se_kind,         \* the panel that is computed
    year_rows,       \* rows of the count_by_year queries, by source
    funding_years,   \* rows of funding_by_year
    found_papers,    \* the papers returned by search_papers
    landscape_panel, \* LandscapePanel
    funding_panel,   \* FundingPanel
    research_panel,  \* ResearchImpactPanel
    \* ---- Jaccard (the Jaccard matrices of domain/cpc_flow.py) ----
    cf_pc,           \* position in build_cooccurrence
    sq_pc,           \* position in build_jaccard_from_sql
    patent_sets,     \* the CPC code set of each patent
    top_n,           \* number of codes to keep
    labels,          \* top_codes returned by build_cooccurrence
    matrix,          \* the matrix returned by build_cooccurrence, in 1/10000
    total_connections, \* pairs counted by build_cooccurrence
    sql_top_codes,   \* top_codes passed to build_jaccard_from_sql
    sql_matrix,      \* the matrix returned by build_jaccard_from_sql, in 1/10000
    sql_connections, \* pairs counted by build_jaccard_from_sql
    \* ---- Select (domain/sampling.py, _systematic_select) ----
    sel_pc,          \* position of the _systematic_select call
    sel_total,       \* len(indices)
    sel_n,           \* n, the number of records to select
    selected,        \* 0-based positions of the selected records, in order
    \* ---- Degrade (external adapter failures and the warnings of the response) ----
    pub_pc,          \* position of OpenAIREAdapter.count_by_year inside analyze_landscape
    pub_results,     \* year -> outcome of _count_single_year in the gather
    ls_warnings,     \* warnings returned by analyze_landscape
    ssp_pc,          \* position of search_papers inside analyze_research_impact
    ssp_papers,      \* len(all_papers) of search_papers
    ri_warnings,     \* warnings returned by analyze_research_impact
    adapter_failures, \* external calls that failed during the request
    provenance_warnings, \* explainability.warnings of the response, None before it is built
    \* ---- Maturity (use_cases/maturity.py, domain/metrics.py) ----
    mat_pc,          \* position of analyze_maturity
    mat_db_available, \* settings.patents_db_available
    mat_end_year,    \* end_year of the request (start_year is FirstYear)
    mat_rows,        \* year -> count, what the patent count query returns
    mat_last_full,   \* what get_last_full_year returns, None for no year
    mat_patent_years, \* patent_years after the query block
    effective_end_year, \* last year that enters the fit and the CAGR
    fit_call,        \* the lists handed to fit_best_model, None if it is not called
    cagr_call,       \* the arguments handed to cagr, None if it is not called
    mat_warnings,    \* warnings returned by analyze_maturity
    maturity_panel,  \* the MaturityPanel returned, None before
    \* ---- Hhi (domain/metrics.py hhi_index, use_cases/competitive.py) ----
    hhi_pc,          \* position of the HHI computation
    hhi_values,      \* the list given: share numerators, or the counts of the actors
    hhi_shares,      \* the shares handed to hhi_index as [nums, den], None before
    hhi,             \* the result as [value, den], value in units of 1/den^2, None before
    \* ---- Jwt (domain/api_health.py, check_jwt_expiry) ----
    jwt_pc,          \* position of check_jwt_expiry
    jwt_token,       \* the token argument
    jwt_now,         \* current time in seconds
    has_refresh_token, \* whether a refresh token is configured
    api_alert        \* the ApiAlert returned, None for no alert

radarVars == <<rpc, request, stores, st, now, panels, all_sources, all_methods,
               all_warnings, data_complete_until, response, propagated>>

tokenVars == <<tclock, cached_token, configured_token, refresh_configured, adapter,
               refresh_requests, refresh_failures, bearer>>

gleifVars == <<wall_day, gleif_cache, sem_holders, caller, since_end, last_gap,
               calls_made, lookups>>

papersVars == <<ppc, limit, all_papers, offset, req_limit, requests, papers,
                total, returned>>

countsVars == <<cy_pc, cy_range, cy_results, cy_arrivals, yearly>>

samplingVars == <<sp_pc, patent_data, target_size, census_threshold, strata_sizes, allocation, sample_count, sample_size>>

datesVars == <<lfy_pc, table, stored_dates, last_full_year>>

ftsVars == <<fts_query, matched>>

seriesVars == <<se_pc, se_kind, year_rows, funding_years, found_papers, landscape_panel, funding_panel, research_panel>>

jaccardVars == <<cf_pc, sq_pc, patent_sets, top_n, labels, matrix, total_connections, sql_top_codes, sql_matrix, sql_connections>>

selectVars == <<sel_pc, sel_total, sel_n, selected>>

degradeVars == <<pub_pc, pub_results, ls_warnings, ssp_pc, ssp_papers, ri_warnings, adapter_failures, provenance_warnings>>

maturityVars == <<mat_pc, mat_db_available, mat_end_year, mat_rows, mat_last_full, mat_patent_years, effective_end_year, fit_call, cagr_call, mat_warnings, maturity_panel>>

hhiVars == <<hhi_pc, hhi_values, hhi_shares, hhi>>

jwtVars == <<jwt_pc, jwt_token, jwt_now, has_refresh_token, api_alert>>

vars == <<radarVars, tokenVars, gleifVars, papersVars, countsVars, samplingVars, datesVars, ftsVars, seriesVars, jaccardVars, selectVars, degradeVars, maturityVars, hhiVars, jwtVars>>

\* What an action of one subsystem leaves alone: the other subsystems.
notRadar == <<tokenVars, gleifVars, papersVars, countsVars, samplingVars, datesVars, ftsVars, seriesVars, jaccardVars, selectVars, degradeVars, maturityVars, hhiVars, jwtVars>>

notToken == <<radarVars, gleifVars, papersVars, countsVars, samplingVars, datesVars, ftsVars, seriesVars, jaccardVars, selectVars, degradeVars, maturityVars, hhiVars, jwtVars>>

notGleif == <<radarVars, tokenVars, papersVars, countsVars, samplingVars, datesVars, ftsVars, seriesVars, jaccardVars, selectVars, degradeVars, maturityVars, hhiVars, jwtVars>>

notPapers == <<radarVars, tokenVars, gleifVars, countsVars, samplingVars, datesVars, ftsVars, seriesVars, jaccardVars, selectVars, degradeVars, maturityVars, hhiVars, jwtVars>>

notCounts == <<radarVars, tokenVars, gleifVars, papersVars, samplingVars, datesVars, ftsVars, seriesVars, jaccardVars, selectVars, degradeVars, maturityVars, hhiVars, jwtVars>>

notSampling == <<radarVars, tokenVars, gleifVars, papersVars, countsVars, datesVars, ftsVars, seriesVars, jaccardVars, selectVars, degradeVars, maturityVars, hhiVars, jwtVars>>

notDates == <<radarVars, tokenVars, gleifVars, papersVars, countsVars, samplingVars, ftsVars, seriesVars, jaccardVars, selectVars, degradeVars, maturityVars, hhiVars, jwtVars>>

notFts == <<radarVars, tokenVars, gleifVars, papersVars, countsVars, samplingVars, datesVars, seriesVars, jaccardVars, selectVars, degradeVars, maturityVars, hhiVars, jwtVars>>

notSeries == <<radarVars, tokenVars, gleifVars, papersVars, countsVars, samplingVars, datesVars, ftsVars, jaccardVars, selectVars, degradeVars, maturityVars, hhiVars, jwtVars>>

notJaccard == <<radarVars, tokenVars, gleifVars, papersVars, countsVars, samplingVars, datesVars, ftsVars, seriesVars, selectVars, degradeVars, maturityVars, hhiVars, jwtVars>>

notSelect == <<radarVars, tokenVars, gleifVars, papersVars, countsVars, samplingVars, datesVars, ftsVars, seriesVars, jaccardVars, degradeVars, maturityVars, hhiVars, jwtVars>>

notDegrade == <<radarVars, tokenVars, gleifVars, papersVars, countsVars, samplingVars, datesVars, ftsVars, seriesVars, jaccardVars, selectVars, maturityVars, hhiVars, jwtVars>>

notMaturity == <<radarVars, tokenVars, gleifVars, papersVars, countsVars, samplingVars, datesVars, ftsVars, seriesVars, jaccardVars, selectVars, degradeVars, hhiVars, jwtVars>>

notHhi == <<radarVars, tokenVars, gleifVars, papersVars, countsVars, samplingVars, datesVars, ftsVars, seriesVars, jaccardVars, selectVars, degradeVars, maturityVars, jwtVars>>

notJwt == <<radarVars, tokenVars, gleifVars, papersVars, countsVars, samplingVars, datesVars, ftsVars, seriesVars, jaccardVars, selectVars, degradeVars, maturityVars, hhiVars>>

\* ------------------------------------------------------------------------
\* Generic helpers
\* ------------------------------------------------------------------------

Null == "null"

NoResponse == [status |-> "none"]

Range(s) == { s[k] : k \in 1..Len(s) }

RECURSIVE FirstOccurrences(_, _)
FirstOccurrences(s, k) ==
    IF k > Len(s) THEN <<>>
    ELSE IF \E m \in 1..(k - 1) : s[m] = s[k]
         THEN FirstOccurrences(s, k + 1)
         ELSE <<s[k]>> \o FirstOccurrences(s, k + 1)

\* A plain copy of the list, duplicates and all.
dict_fromkeys_NoDedup(s) == s

\* list(dict.fromkeys(xs)): every key once, at the place of its first occurrence.
dict_fromkeys(s) == FirstOccurrences(s, 1)

\* ------------------------------------------------------------------------
\* Radar: constants of analyze_technology
\* ------------------------------------------------------------------------

UCs == 1..8

uc_names == <<"Landscape", "Maturity", "Competitive", "Funding",
              "CPC-Flow", "Geographic", "Research-Impact", "Temporal">>

\* The keyword of each panel in RadarResponse(...).
panel_fields == <<"landscape", "maturity", "competitive", "funding",
                  "cpc_flow", "geographic", "research_impact", "temporal">>

empty_panels(i) == [kind |-> panel_fields[i], content |-> "default"]

default_timeout == 30

cpc_timeout == 30

\* A deadline twice as long as the configured one.
TimeoutOf_Late(i) == 2 * default_timeout

\* The timeout paired with the i-th coroutine in uc_tasks_with_timeout.
TimeoutOf(i) == IF i = 5 THEN cpc_timeout ELSE default_timeout

\* Granularity of the modelled clock, in seconds.
TickS == 15

\* Request validation (RadarRequest): technology 1..200 chars, years 3..30.
min_length == 1

max_length == 200

years_ge == 3

years_le == 30

RequestBodies ==
    [techLen : {0, 1, 201}, years : {2, 10, 31}]

Valid(r) ==
    /\ r.techLen >= min_length /\ r.techLen <= max_length
    /\ r.years >= years_ge /\ r.years <= years_le

W(text) == [uc |-> "", err |-> "", text |-> text]

FailureWarning(i, cls) ==
    [uc |-> uc_names[i], err |-> cls, text |-> "Timeout oder Fehler"]

\* What the i-th engine hands back when it completes: (panel, sources,
\* methods, warnings).  The content depends on which stores exist.
EngineResult(i, s) ==
    LET epo    == IF s.patents THEN <<"EPO DOCDB (lokal)">> ELSE <<>>
        cordis == IF s.cordis THEN <<"CORDIS (lokal)">> ELSE <<>>
        noPat  == IF s.patents THEN <<W("Patent-Daten bis 2022 vollstaendig")>>
                  ELSE <<W("Patent-DB nicht verfuegbar")>>
        noCor  == IF s.cordis THEN <<>> ELSE <<W("CORDIS-DB nicht verfuegbar")>>
        full(x) == [kind |-> panel_fields[i], content |-> x]
    IN CASE i = 1 -> [panel |-> full("engine"),
                      sources |-> epo \o cordis \o <<"OpenAIRE (API)">>,
                      methods |-> <<"FTS5-Volltextsuche", "Jaehrliche Aggregation">>,
                      warnings |-> noPat \o noCor]
         [] i = 2 -> [panel |-> full(IF s.patents THEN "engine" ELSE "default"),
                      sources |-> epo,
                      methods |-> <<"Phasenklassifikation", "FTS5-Volltextsuche">>,
                      warnings |-> noPat]
         [] i = 3 -> [panel |-> full("engine"),
                      sources |-> epo \o cordis,
                      methods |-> <<"HHI-Index", "Akteur-Aggregation">>,
                      warnings |-> noPat]
         [] i = 4 -> [panel |-> full(IF s.cordis THEN "engine" ELSE "default"),
                      sources |-> cordis,
                      methods |-> IF s.cordis THEN <<"EU-Foerderdaten-Aggregation">>
                                  ELSE <<>>,
                      warnings |-> noCor]
         [] i = 5 -> [panel |-> full(IF s.patents THEN "engine" ELSE "default"),
                      sources |-> epo,
                      methods |-> IF s.patents THEN <<"CPC-Co-Klassifikation">>
                                  ELSE <<>>,
                      warnings |-> IF s.patents THEN <<>>
                                   ELSE <<W("Patent-DB nicht verfuegbar")>>]
         [] i = 6 -> [panel |-> full("engine"),
                      sources |-> cordis \o epo,
                      methods |-> <<"Laender-Aggregation">>,
                      warnings |-> <<>>]
         [] i = 7 -> [panel |-> full("engine"),
                      sources |-> <<"Semantic Scholar Academic Graph API">>,
                      methods |-> <<"h-Index", "Jaehrliche Aggregation">>,
                      warnings |-> <<W("h-Index basiert auf Top-200 Papers")>>]
         [] OTHER -> [panel |-> full("engine"),
                      sources |-> epo \o cordis,
                      methods |-> <<"Akteur-Dynamik", "HHI-Index">>,
                      warnings |-> noPat]

\* The exception class an engine body raises when it fails.
EngineException(i) ==
    IF i % 2 = 1 THEN "OperationalError" ELSE "ValueError"

\* The clock value datetime.now().year yields.
CurrentYear == 2026

\* An optional year: <<>> is null, <<y>> is the year y.
NoYear == <<>>

\* What get_last_full_year can answer for the patent store.
ProbeOutcomes == {"year", "none", "raise"}

\* ------------------------------------------------------------------------
\* Radar: asyncio.gather(*[wait_for(t, timeout)], return_exceptions=True)
\* ------------------------------------------------------------------------

Running(stv) == { i \in UCs : stv[i] = "running" }

Failed(stv) == { i \in UCs : stv[i] \in {"raised", "timeout"} }

err_type(stv, i) ==
    IF stv[i] = "timeout" THEN "TimeoutError" ELSE EngineException(i)

\* A failing task under a gather that tears its siblings down.
SiblingsAfterFailure_Cancel(stv, i) ==
    [j \in UCs |-> IF j # i /\ stv[j] = "running" THEN "timeout" ELSE stv[j]]

\* gather leaves the other awaitables alone when one of them fails.
SiblingsAfterFailure(stv, i) == stv

\* gather without return_exceptions: the first failure is raised to the caller.
Gathered_Raising(stv, s) ==
    IF Failed(stv) # {}
    THEN [raised |-> err_type(stv, CHOOSE i \in Failed(stv) :
                                     \A j \in Failed(stv) : i <= j),
          results |-> <<>>]
    ELSE [raised |-> "none",
          results |-> [i \in UCs |-> [ok |-> TRUE, val |-> EngineResult(i, s),
                                      exc |-> ""]]]

\* The list gather returns: one entry per awaitable, in argument order; an
\* exception object where the awaitable raised or its deadline expired.
Gathered(stv, s) ==
    [raised |-> "none",
     results |-> [i \in UCs |->
                    IF stv[i] = "returned"
                    THEN [ok |-> TRUE, val |-> EngineResult(i, s), exc |-> ""]
                    ELSE [ok |-> FALSE, val |-> Null, exc |-> err_type(stv, i)]]]

\* The unpacking loop body for a failed task, were it to keep what the
\* engine had gathered.
UnpackStep_KeepPartial(i, result) ==
    IF ~result.ok
    THEN [panel    |-> empty_panels(i),
          sources  |-> EngineResult(i, stores).sources,
          methods  |-> EngineResult(i, stores).methods,
          warnings |-> <<FailureWarning(i, result.exc)>>]
    ELSE [panel    |-> result.val.panel,
          sources  |-> result.val.sources,
          methods  |-> result.val.methods,
          warnings |-> result.val.warnings]

\* One pass of the unpacking loop for results[i]: what it appends to
\* panels, all_sources, all_methods and all_warnings.
UnpackStep(i, result) ==
    IF ~result.ok
    THEN [panel    |-> empty_panels(i),
          sources  |-> <<>>,
          methods  |-> <<>>,
          warnings |-> <<FailureWarning(i, result.exc)>>]
    ELSE [panel    |-> result.val.panel,
          sources  |-> result.val.sources,
          methods  |-> result.val.methods,
          warnings |-> result.val.warnings]

RECURSIVE Extended(_, _, _)
Extended(i, results, field) ==
    IF i > Len(results) THEN <<>>
    ELSE UnpackStep(i, results[i])[field] \o Extended(i + 1, results, field)

\* The four lists after the loop over enumerate(results).
Unpack(results) ==
    [panels   |-> [i \in 1..Len(results) |-> UnpackStep(i, results[i]).panel],
     sources  |-> Extended(1, results, "sources"),
     methods  |-> Extended(1, results, "methods"),
     warnings |-> Extended(1, results, "warnings")]

\* ------------------------------------------------------------------------
\* Radar: API health alerts
\* ------------------------------------------------------------------------

\* Warning texts that contain one of _FAILURE_PATTERNS, with the source named.
FailureSourceOf(text) ==
    CASE text = "Semantic Scholar Abfrage fehlgeschlagen" -> "Semantic Scholar"
      [] text = "GLEIF Entity Resolution fehlgeschlagen" -> "GLEIF"
      [] text = "Query 'publication_years' fehlgeschlagen" -> "OpenAIRE"
      [] OTHER -> ""

\* One error alert per failing source, in the order the warnings name them.
detect_runtime_failures(ws) ==
    LET named == [k \in 1..Len(ws) |-> FailureSourceOf(ws[k].text)]
        hit(x) == x # ""
        srcs  == dict_fromkeys(SelectSeq(named, hit))
    IN [k \in 1..Len(srcs) |-> [source |-> srcs[k], level |-> "error"]]

\* Outcomes of check_jwt_expiry on the configured access token.
JwtAlerts == {"none", "warning", "error"}

\* ------------------------------------------------------------------------
\* Token: OpenAIREAdapter._ensure_valid_token ahead of count_by_year
\* ------------------------------------------------------------------------

\* Concurrent count_by_year batches, each on its own adapter object.
MaxBatches == 2

Batches == 1..MaxBatches

_TOKEN_MARGIN_S == 60

\* Wall-clock second at which the batches start, and how far it may advance.
ClockStart == 1000

MaxClockAdvance == 2

\* Validity the token endpoint grants to a token it issues.
IssuedLifetime == 3600

\* A token is its identity and its exp claim; the empty string has neither.
NoToken == [id |-> "", exp |-> 0]

\* _token_expiry: the exp claim of a JWT, 0.0 for anything else.
_token_expiry(token) == IF token.id = "" THEN 0 ELSE token.exp

\* Seconds of validity left on the configured access token at ClockStart.
InitialRemaining == {30, 59, 60, 61, 3600}

ConfiguredTokens ==
    {NoToken} \cup { [id |-> "A0", exp |-> ClockStart + r] : r \in InitialRemaining }

\* The token the endpoint hands out for its n-th request at time t.
IssuedToken(n, t) ==
    [id |-> IF n = 1 THEN "N1" ELSE IF n = 2 THEN "N2" ELSE IF n = 3 THEN "N3"
            ELSE "N4",
     exp |-> t + IssuedLifetime]

TokenIdle ==
    /\ tclock = ClockStart
    /\ cached_token = NoToken
    /\ configured_token = NoToken
    /\ refresh_configured = FALSE
    /\ adapter = [b \in Batches |-> [pc |-> "idle", token |-> NoToken]]
    /\ refresh_requests = 0
    /\ refresh_failures = 0
    /\ bearer = [b \in Batches |-> "unsent"]

\* Adapters built from the same settings; the module cache starts empty.
TokenInit ==
    /\ tclock = ClockStart
    /\ cached_token = NoToken
    /\ refresh_configured \in BOOLEAN
    /\ configured_token \in ConfiguredTokens
    /\ adapter = [b \in Batches |-> [pc |-> "start", token |-> configured_token]]
    /\ refresh_requests = 0
    /\ refresh_failures = 0
    /\ bearer = [b \in Batches |-> "unsent"]

\* The cached-token test of step 1.
CachedUsable ==
    /\ refresh_configured
    /\ cached_token.id # ""
    /\ cached_token.exp - tclock > _TOKEN_MARGIN_S

\* The current-token test of step 2.
CurrentUsable(b) ==
    _token_expiry(adapter[b].token) - tclock > _TOKEN_MARGIN_S

\* _ensure_valid_token from its entry to its first suspension: either it
\* returns at once or it has sent the refresh request and awaits the answer.
EnsureValidToken(b) ==
    /\ adapter[b].pc = "start"
    /\ IF adapter[b].token.id = "" /\ ~refresh_configured
       THEN /\ adapter' = [adapter EXCEPT ![b].pc = "batch"]
            /\ UNCHANGED refresh_requests
       ELSE IF CachedUsable
       THEN /\ adapter' = [adapter EXCEPT ![b] = [pc |-> "batch",
                                                  token |-> cached_token]]
            /\ UNCHANGED refresh_requests
       ELSE IF CurrentUsable(b)
       THEN /\ adapter' = [adapter EXCEPT ![b].pc = "batch"]
            /\ UNCHANGED refresh_requests
       ELSE IF refresh_configured
       THEN /\ adapter' = [adapter EXCEPT ![b].pc = "refreshing"]
            /\ refresh_requests' = refresh_requests + 1
       ELSE /\ adapter' = [adapter EXCEPT ![b].pc = "batch"]
            /\ UNCHANGED refresh_requests
    /\ UNCHANGED notToken
    /\ UNCHANGED <<tclock, cached_token, configured_token, refresh_configured, refresh_failures,
                   bearer>>

\* Refresh requests answered with a token so far.
TokensIssued ==
    refresh_requests - refresh_failures
        - Cardinality({ c \in Batches : adapter[c].pc = "refreshing" })

\* The refresh answer arrives with an access_token: it becomes the adapter's
\* token and the module-level cache.
RefreshSucceeds(b) ==
    /\ adapter[b].pc = "refreshing"
    /\ \E new_token \in {IssuedToken(TokensIssued + 1, tclock)} :
         /\ adapter' = [adapter EXCEPT ![b] = [pc |-> "batch", token |-> new_token]]
         /\ cached_token' = new_token
    /\ UNCHANGED notToken
    /\ UNCHANGED <<tclock, configured_token, refresh_configured, refresh_requests,
                   refresh_failures, bearer>>

\* The refresh request fails and the adapter forgets its token.
RefreshFails_DropsToken(b) ==
    /\ adapter[b].pc = "refreshing"
    /\ adapter' = [adapter EXCEPT ![b] = [pc |-> "batch", token |-> NoToken]]
    /\ refresh_failures' = refresh_failures + 1
    /\ UNCHANGED notToken
    /\ UNCHANGED <<tclock, cached_token, configured_token, refresh_configured, refresh_requests,
                   bearer>>

\* The refresh request fails (network error, non-2xx, or no access_token in
\* the body): logged, the old token stays.
RefreshFails(b) ==
    /\ adapter[b].pc = "refreshing"
    /\ adapter' = [adapter EXCEPT ![b].pc = "batch"]
    /\ refresh_failures' = refresh_failures + 1
    /\ UNCHANGED notToken
    /\ UNCHANGED <<tclock, cached_token, configured_token, refresh_configured, refresh_requests,
                   bearer>>

\* count_by_year after _ensure_valid_token: the per-year requests go out
\* with the adapter's token as Authorization bearer.
SendYearRequests(b) ==
    /\ adapter[b].pc = "batch"
    /\ bearer' = [bearer EXCEPT ![b] = adapter[b].token.id]
    /\ adapter' = [adapter EXCEPT ![b].pc = "done"]
    /\ UNCHANGED notToken
    /\ UNCHANGED <<tclock, cached_token, configured_token, refresh_configured, refresh_requests,
                   refresh_failures>>

TokenTick ==
    /\ tclock < ClockStart + MaxClockAdvance
    /\ \E b \in Batches : adapter[b].pc \notin {"idle", "done"}
    /\ tclock' = tclock + 1
    /\ UNCHANGED notToken
    /\ UNCHANGED <<cached_token, configured_token, refresh_configured, adapter,
                   refresh_requests,
                   refresh_failures, bearer>>

TokenNext ==
    \/ \E b \in Batches : EnsureValidToken(b)
    \/ \E b \in Batches : RefreshSucceeds(b)
    \/ \E b \in Batches : RefreshFails(b)
    \/ \E b \in Batches : SendYearRequests(b)
    \/ TokenTick

\* ------------------------------------------------------------------------
\* Gleif: infrastructure/adapters/gleif_adapter.py
\* ------------------------------------------------------------------------

\* Concurrent tasks calling into one GleifAdapter object.
MaxCallers == 2

Callers == 1..MaxCallers

\* resolve_entity / resolve_batch invocations in one behaviour.
MaxCalls == 2

\* Longest names list handed to resolve_batch, and largest max_api_calls.
MaxNames == 2

MaxCap == 2

_CACHE_TTL_DAYS == 90

\* asyncio.sleep(1.0) of the finally block, in milliseconds.
PacingMs == 1000

\* Step of the event-loop clock, in milliseconds.
GTickMs == 500

\* Last day of the wall clock.
MaxDay == 91

\* Python's None is the empty option, a value v is <<v>>.
None == <<>>

Min(a, b) == IF a <= b THEN a ELSE b

\* Names are character sequences, so that upper() and strip() compute.
RawNames == { <<"a">>, <<"A", " ">>, <<"b">> }

Upper(ch) == IF ch = "a" THEN "A" ELSE IF ch = "b" THEN "B" ELSE ch

upper(name) == [k \in 1..Len(name) |-> Upper(name[k])]

RECURSIVE lstrip(_)
lstrip(s) == IF s # <<>> /\ Head(s) = " " THEN lstrip(Tail(s)) ELSE s

RECURSIVE rstrip(_)
rstrip(s) ==
    IF s # <<>> /\ s[Len(s)] = " " THEN rstrip(SubSeq(s, 1, Len(s) - 1)) ELSE s

strip(s) == rstrip(lstrip(s))

\* The primary key of gleif_cache: name.upper().strip().
CacheKey(name) == strip(upper(name))

Keys == { CacheKey(n) : n \in RawNames }

\* Days by which the wall clock jumps between calls: an entry is then
\* exactly _CACHE_TTL_DAYS old, or one day older.
DayJumps == {_CACHE_TTL_DAYS, _CACHE_TTL_DAYS + 1}

NoRow == [present |-> FALSE, answer |-> None, resolved_at |-> 0]

\* The record built from records[0] of the answer to a query for 'name'.
RemoteRecord(name) == [lei |-> name, legal_name |-> upper(name)]

\* What the registry answers to one request.
RemoteOutcomes == {"match", "empty", "error"}

EmptyDict == [n \in {} |-> None]

\* d[key] = v of a Python dict.
DictSet(d, key, v) ==
    [n \in DOMAIN d \cup {key} |-> IF n = key THEN v ELSE d[n]]

IdleCaller ==
    [pc |-> "idle", kind |-> "none", names |-> <<>>, max_api_calls |-> 0,
     to_resolve |-> <<>>, k |-> 0, name |-> <<>>, results |-> EmptyDict,
     got |-> EmptyDict, sent |-> 0, ret |-> None, wake_in |-> 0,
     seen |-> {}]

GleifIdle ==
    /\ wall_day = 0
    /\ gleif_cache = [key \in Keys |-> NoRow]
    /\ sem_holders = {}
    /\ caller = [c \in Callers |-> [IdleCaller EXCEPT !.pc = "off"]]
    /\ since_end = -1
    /\ last_gap = -1
    /\ calls_made = 0
    /\ lookups = {}

\* A fresh adapter on an empty cache file.
GleifInit ==
    /\ wall_day = 0
    /\ gleif_cache = [key \in Keys |-> NoRow]
    /\ sem_holders = {}
    /\ caller = [c \in Callers |-> IdleCaller]
    /\ since_end = -1
    /\ last_gap = -1
    /\ calls_made = 0
    /\ lookups = {}

\* _get_cached: miss (None), "NEGATIVE", or the cached record.
_get_cached(name) ==
    LET row == gleif_cache[CacheKey(name)] IN
    IF ~row.present THEN [kind |-> "miss", value |-> None]
    ELSE IF wall_day - row.resolved_at > _CACHE_TTL_DAYS
    THEN [kind |-> "miss", value |-> None]
    ELSE IF row.answer = None THEN [kind |-> "negative", value |-> None]
    ELSE [kind |-> "hit", value |-> row.answer]

\* _write_cache: INSERT OR REPLACE under the key, stamped with now.
_write_cache(name, result) ==
    [gleif_cache EXCEPT ![CacheKey(name)] =
        [present |-> TRUE, answer |-> result, resolved_at |-> wall_day]]

InFlight == { c \in Callers : caller[c].pc = "in_flight" }

Waiting == { c \in Callers : caller[c].pc = "waiting" }

locked_TwoPermits(holders) == Cardinality(holders) >= 2

\* asyncio.Semaphore(1): no permit is left once one task holds it.
locked(holders) == Cardinality(holders) >= 1

\* Whether a task reaching "async with self._semaphore" enters at once.
\* With tasks already queued, the asyncio version decides whether the
\* newcomer may overtake them (barge).
MayAcquire(holders, barge) ==
    ~locked(holders) /\ (barge \/ Waiting = {})

\* resolve_entity from its entry to its first suspension or its return, for
\* a direct call.
resolve_entity(r, name, may_acquire) ==
    LET cached == _get_cached(name) IN
    IF cached.kind # "miss"
    THEN [r EXCEPT !.name = name, !.ret = cached.value, !.pc = "returned"]
    ELSE [r EXCEPT !.name = name,
                   !.pc = IF may_acquire THEN "in_flight" ELSE "waiting",
                   !.sent = IF may_acquire THEN @ + 1 ELSE @]

\* Names of to_resolve[max_api_calls:].
BeyondCap(r) ==
    Range(SubSeq(r.to_resolve, r.max_api_calls + 1, Len(r.to_resolve)))

\* for name in to_resolve[max_api_calls:]: results[name] = None; return.
ThirdLoop(r) ==
    [r EXCEPT !.results = [n \in DOMAIN @ \cup BeyondCap(r) |->
                              IF n \in BeyondCap(r) THEN None ELSE @[n]],
              !.pc = "returned"]

\* for name in to_resolve[:max_api_calls]: results[name] = await
\* resolve_entity(name), from position k to the first suspension.  A name
\* that another task has cached meanwhile is answered without suspension.
RECURSIVE SecondLoop(_, _, _)
SecondLoop(r, k, may_acquire) ==
    IF k > Min(r.max_api_calls, Len(r.to_resolve))
    THEN ThirdLoop(r)
    ELSE IF _get_cached(r.to_resolve[k]).kind # "miss"
    THEN SecondLoop(
            [r EXCEPT !.results = DictSet(@, r.to_resolve[k],
                                          _get_cached(r.to_resolve[k]).value),
                      !.got = DictSet(@, r.to_resolve[k],
                                      _get_cached(r.to_resolve[k]).value)],
            k + 1, may_acquire)
    ELSE [r EXCEPT !.k = k, !.name = r.to_resolve[k],
                   !.pc = IF may_acquire THEN "in_flight" ELSE "waiting",
                   !.sent = IF may_acquire THEN @ + 1 ELSE @]

\* The cache pass of resolve_batch over names.
FirstLoop(r, names) ==
    LET cached == { names[j] : j \in { j \in 1..Len(names) :
                                       _get_cached(names[j]).kind # "miss" } }
        answers == [n \in cached |-> _get_cached(n).value]
    IN [r EXCEPT !.names = names,
                 !.results = answers,
                 !.got = answers,
                 !.to_resolve =
                     SelectSeq(names, LAMBDA n : _get_cached(n).kind = "miss")]

\* The caller's new state takes effect; a request that goes out takes a
\* permit and notes the time since the previous outbound call ended.
\* Answers of the lookups completed under the key of 'name' no more than
\* _CACHE_TTL_DAYS ago.
CompletedAnswers(name) ==
    { l.answer : l \in { l \in lookups : /\ l.key = CacheKey(name)
                                        /\ wall_day - l.day <= _CACHE_TTL_DAYS } }

Proceed(c, r, holders) ==
    /\ caller' = [caller EXCEPT ![c] = r]
    /\ sem_holders' = IF r.pc = "in_flight" THEN holders \cup {c} ELSE holders
    /\ last_gap' = IF r.pc = "in_flight" THEN since_end ELSE last_gap

\* A task calls resolve_entity(name).
CallResolveEntity(c, name) ==
    /\ caller[c].pc = "idle"
    /\ calls_made < MaxCalls
    /\ calls_made' = calls_made + 1
    /\ \E barge \in BOOLEAN :
         Proceed(c,
                 resolve_entity([IdleCaller EXCEPT
                                    !.kind = "entity",
                                    !.seen = CompletedAnswers(name)],
                                name, MayAcquire(sem_holders, barge)),
                 sem_holders)
    /\ UNCHANGED <<wall_day, gleif_cache, since_end, lookups>>
    /\ UNCHANGED notGleif

\* A task calls resolve_batch(names, max_api_calls).
CallResolveBatch(c, names, max_api_calls) ==
    /\ caller[c].pc = "idle"
    /\ calls_made < MaxCalls
    /\ calls_made' = calls_made + 1
    /\ \E barge \in BOOLEAN :
         Proceed(c,
                 SecondLoop(FirstLoop([IdleCaller EXCEPT
                                          !.kind = "batch",
                                          !.max_api_calls = max_api_calls],
                                      names),
                            1, MayAcquire(sem_holders, barge)),
                 sem_holders)
    /\ UNCHANGED <<wall_day, gleif_cache, since_end, lookups>>
    /\ UNCHANGED notGleif

\* A queued task gets the semaphore and sends its request: the cache is not
\* read again.
AcquireSemaphore(c) ==
    /\ caller[c].pc = "waiting"
    /\ ~locked(sem_holders)
    /\ Proceed(c, [caller[c] EXCEPT !.pc = "in_flight", !.sent = @ + 1],
               sem_holders)
    /\ UNCHANGED <<wall_day, gleif_cache, since_end, calls_made, lookups>>
    /\ UNCHANGED notGleif

\* The outbound call ends: a first record, no record, or a failure (network
\* error, non-2xx status, unexpected body).  The finally block then sleeps
\* with the semaphore still held.
ResponseArrives(c, outcome) ==
    /\ caller[c].pc = "in_flight"
    /\ \E result \in {IF outcome = "match"
                      THEN <<RemoteRecord(caller[c].name)>> ELSE None} :
         /\ caller' = [caller EXCEPT ![c].pc = "sleeping",
                                     ![c].ret = result,
                                     ![c].wake_in = PacingMs]
         /\ IF outcome = "error"
            THEN UNCHANGED <<gleif_cache, lookups>>
            ELSE /\ gleif_cache' = _write_cache(caller[c].name, result)
                 /\ lookups' = lookups \cup
                                 {[key |-> CacheKey(caller[c].name),
                                   answer |-> result,
                                   day |-> wall_day]}
    /\ since_end' = 0
    /\ UNCHANGED <<wall_day, sem_holders, last_gap, calls_made>>
    /\ UNCHANGED notGleif

\* The pacing sleep is over: the semaphore is released and resolve_entity
\* returns; a batch stores the result and goes on with its next name.
WakeUp(c) ==
    /\ caller[c].pc = "sleeping"
    /\ caller[c].wake_in = 0
    /\ IF caller[c].kind = "entity"
       THEN Proceed(c, [caller[c] EXCEPT !.pc = "returned"], sem_holders \ {c})
       ELSE \E barge \in BOOLEAN :
              Proceed(c,
                      SecondLoop([caller[c] EXCEPT
                                     !.results = DictSet(@, caller[c].name,
                                                         caller[c].ret),
                                     !.got = DictSet(@, caller[c].name,
                                                     caller[c].ret)],
                                 caller[c].k + 1,
                                 MayAcquire(sem_holders \ {c}, barge)),
                      sem_holders \ {c})
    /\ UNCHANGED <<wall_day, gleif_cache, since_end, calls_made, lookups>>
    /\ UNCHANGED notGleif

\* The task that called takes its result.
TakeResult(c) ==
    /\ caller[c].pc = "returned"
    /\ caller' = [caller EXCEPT ![c] = IdleCaller]
    /\ UNCHANGED <<wall_day, gleif_cache, sem_holders, since_end, last_gap,
                   calls_made, lookups>>
    /\ UNCHANGED notGleif

\* The event-loop clock advances; a due timer fires before it moves on.
GleifTick ==
    /\ \A c \in Callers : caller[c].pc = "sleeping" => caller[c].wake_in > 0
    /\ \/ \E c \in Callers : caller[c].pc = "sleeping"
       \/ (since_end >= 0 /\ since_end < PacingMs)
    /\ caller' = [c \in Callers |->
                    IF caller[c].pc = "sleeping"
                    THEN [caller[c] EXCEPT !.wake_in =
                             IF @ > GTickMs THEN @ - GTickMs ELSE 0]
                    ELSE caller[c]]
    /\ since_end' = IF since_end < 0 THEN since_end
                    ELSE Min(PacingMs, since_end + GTickMs)
    /\ UNCHANGED <<wall_day, gleif_cache, sem_holders, last_gap, calls_made,
                   lookups>>
    /\ UNCHANGED notGleif

\* Weeks pass with no call under way.
DaysPass(days) ==
    /\ \A c \in Callers : caller[c].pc \in {"idle", "returned"}
    /\ calls_made > 0
    /\ wall_day + days <= MaxDay
    /\ wall_day' = wall_day + days
    /\ since_end' = IF since_end < 0 THEN since_end ELSE PacingMs
    /\ UNCHANGED <<gleif_cache, sem_holders, caller, last_gap, calls_made,
                   lookups>>
    /\ UNCHANGED notGleif

NamesLists ==
    UNION { [1..n -> RawNames] : n \in 0..MaxNames }

GleifNext ==
    \/ \E c \in Callers, name \in RawNames : CallResolveEntity(c, name)
    \/ \E c \in Callers, names \in NamesLists, max_api_calls \in 0..MaxCap :
          CallResolveBatch(c, names, max_api_calls)
    \/ \E c \in Callers : AcquireSemaphore(c)
    \/ \E c \in Callers, outcome \in RemoteOutcomes : ResponseArrives(c, outcome)
    \/ \E c \in Callers : WakeUp(c)
    \/ \E c \in Callers : TakeResult(c)
    \/ GleifTick
    \/ \E days \in DayJumps : DaysPass(days)

\* ------------------------------------------------------------------------
\* Papers: infrastructure/adapters/semantic_scholar_adapter.py
\* ------------------------------------------------------------------------

PAGE_SIZE == 100

\* Values of the limit argument; 200 is its default.
Limits == {0, 1, 2, 3, 100, 101, 200}

\* Papers are kept as runs: positions first..last of the answer to the
\* page-th request.
RECURSIVE Count(_)
Count(runs) ==
    IF runs = <<>> THEN 0
    ELSE (Head(runs).last - Head(runs).first + 1) + Count(Tail(runs))

\* all_papers[:n] for n >= 0.
RECURSIVE Slice(_, _)
Slice(runs, n) ==
    IF runs = <<>> \/ n <= 0 THEN <<>>
    ELSE IF Head(runs).last - Head(runs).first + 1 <= n
    THEN <<Head(runs)>>
            \o Slice(Tail(runs), n - (Head(runs).last - Head(runs).first + 1))
    ELSE <<[Head(runs) EXCEPT !.last = Head(runs).first + n - 1]>>

page_limit_NoCap(lim, collected) == lim - collected

\* page_limit = min(self.PAGE_SIZE, limit - len(all_papers))
page_limit(lim, collected) == Min(PAGE_SIZE, lim - collected)

\* Size of the page the remote answers a request for n papers with: none,
\* one short, exactly n, one too many.
SizeKinds == {"empty", "short", "exact", "over"}

AnswerSize(kind, n) ==
    IF kind = "empty" THEN 0
    ELSE IF kind = "short" THEN n - 1
    ELSE IF kind = "exact" THEN n ELSE n + 1

\* "total" of an answer, the offset having advanced to off: the field is
\* missing (read as 0), the offset has reached it, or more is to come.
TotalKinds == {"missing", "reached", "more"}

AnswerTotal(kind, off) ==
    IF kind = "missing" THEN 0 ELSE IF kind = "reached" THEN off ELSE off + 1

PapersIdle ==
    /\ ppc = "off"
    /\ limit = 0
    /\ all_papers = <<>>
    /\ offset = 0
    /\ req_limit = 0
    /\ requests = 0
    /\ papers = 0
    /\ total = 0
    /\ returned = <<>>

\* search_papers has been called with some limit.
PapersInit ==
    /\ ppc = "start"
    /\ limit \in Limits
    /\ all_papers = <<>>
    /\ offset = 0
    /\ req_limit = 0
    /\ requests = 0
    /\ papers = 0
    /\ total = 0
    /\ returned = <<>>

\* The while test with what follows it: the next page request, or
\* return all_papers[:limit].
LoopHead ==
    IF Count(all_papers) < limit
    THEN /\ ppc' = "requesting"
         /\ req_limit' = page_limit(limit, Count(all_papers))
         /\ requests' = requests + 1
         /\ returned' = returned
    ELSE /\ ppc' = "returned"
         /\ returned' = Slice(all_papers, limit)
         /\ UNCHANGED <<req_limit, requests>>

\* search_papers up to its first await.
StartSearch ==
    /\ ppc = "start"
    /\ LoopHead
    /\ UNCHANGED <<limit, all_papers, offset, papers, total>>
    /\ UNCHANGED notPapers

\* A page arrives: break on an empty page, else extend, advance the offset,
\* break when it has reached total, else sleep before the next page.
PageArrives(size_kind, total_kind) ==
    /\ ppc = "requesting"
    /\ \E size \in {AnswerSize(size_kind, req_limit)} :
       /\ papers' = size
       /\ IF size = 0
          THEN /\ ppc' = "returned"
               /\ returned' = Slice(all_papers, limit)
               /\ UNCHANGED <<all_papers, offset, total>>
          ELSE /\ all_papers' = Append(all_papers,
                                   [page |-> requests, first |-> 1, last |-> size])
               /\ total' = AnswerTotal(total_kind, offset + size)
               /\ offset' = offset + size
               /\ IF offset' >= total'
                  THEN /\ ppc' = "returned"
                       /\ returned' = Slice(all_papers', limit)
                  ELSE /\ ppc' = "pausing"
                       /\ returned' = returned
    /\ UNCHANGED <<limit, req_limit, requests>>
    /\ UNCHANGED notPapers

except_Exception_Propagates(runs, lim) == [pc |-> "raised", value |-> <<>>]

\* except Exception around the loop: the error is logged and control falls
\* through to "return all_papers[:limit]".
except_Exception(runs, lim) == [pc |-> "returned", value |-> Slice(runs, lim)]

\* The request raises (timeout, network error, non-2xx status, a body that
\* is no JSON): logged, and what has been collected is returned.
RequestFails ==
    /\ ppc = "requesting"
    /\ ppc' = except_Exception(all_papers, limit).pc
    /\ returned' = except_Exception(all_papers, limit).value
    /\ UNCHANGED <<limit, all_papers, offset, req_limit, requests, papers, total>>
    /\ UNCHANGED notPapers

\* asyncio.sleep(0.1) is over.
PauseEnds ==
    /\ ppc = "pausing"
    /\ LoopHead
    /\ UNCHANGED <<limit, all_papers, offset, papers, total>>
    /\ UNCHANGED notPapers

PapersNext ==
    \/ StartSearch
    \/ \E size_kind \in SizeKinds, total_kind \in TotalKinds :
          PageArrives(size_kind, total_kind)
    \/ RequestFails
    \/ PauseEnds

\* ------------------------------------------------------------------------
\* Counts: infrastructure/adapters/openaire_adapter.py count_by_year
\* ------------------------------------------------------------------------

\* First year of the windows tried, and the longest window minus one.
FirstYear == 2020

MaxSpan == 2

\* Publication counts a year request may report.
YearCounts == {0, 5}

\* range(start_year, end_year + 1) as a list.
range(start, end) == [k \in 1..(IF end >= start THEN end - start + 1 ELSE 0) |->
                         start + k - 1]

PendingYear == [state |-> "pending", count |-> 0]

CountsIdle ==
    /\ cy_pc = "off"
    /\ cy_range = [start |-> 0, end |-> 0]
    /\ cy_results = <<>>
    /\ cy_arrivals = <<>>
    /\ yearly = <<>>

\* count_by_year has been called, the token has been dealt with.
CountsInit ==
    /\ cy_pc = "start"
    /\ \E start \in FirstYear..(FirstYear + MaxSpan),
          end \in (FirstYear - 1)..(FirstYear + MaxSpan) :
            cy_range = [start |-> start, end |-> end]
    /\ cy_results = <<>>
    /\ cy_arrivals = <<>>
    /\ yearly = <<>>

YearEntry_ZeroOnFailure(year, result) ==
    <<[year |-> year, count |-> IF result.state = "ok" THEN result.count ELSE 0]>>

\* The body of "for result in results": a dict is appended, an exception
\* is logged.
YearEntry(year, result) ==
    IF result.state = "ok" THEN <<[year |-> year, count |-> result.count]>>
    ELSE <<>>

\* The loop over results, which gather returns in the order of the tasks.
RECURSIVE Appended(_, _)
Appended(years, results) ==
    IF years = <<>> THEN <<>>
    ELSE YearEntry(Head(years), results[Head(years)])
            \o Appended(Tail(years), results)

\* Insertion of e into a list sorted by year, behind entries of its year.
RECURSIVE Inserted(_, _)
Inserted(sorted, e) ==
    IF sorted = <<>> THEN <<e>>
    ELSE IF Head(sorted).year <= e.year
    THEN <<Head(sorted)>> \o Inserted(Tail(sorted), e)
    ELSE <<e>> \o sorted

\* yearly.sort(key=lambda x: x["year"]): a stable sort.
RECURSIVE sort_by_year(_)
sort_by_year(list) ==
    IF list = <<>> THEN <<>>
    ELSE Inserted(sort_by_year(SubSeq(list, 1, Len(list) - 1)), list[Len(list)])

\* The per-year tasks are created and gather is awaited.
StartYearTasks ==
    /\ cy_pc = "start"
    /\ cy_pc' = "gathering"
    /\ cy_results' = [y \in Range(range(cy_range.start, cy_range.end)) |->
                         PendingYear]
    /\ UNCHANGED <<cy_range, cy_arrivals, yearly>>
    /\ UNCHANGED notCounts

\* The request of one year is answered with a total.
YearSucceeds(y, count) ==
    /\ cy_pc = "gathering"
    /\ y \in DOMAIN cy_results
    /\ cy_results[y].state = "pending"
    /\ cy_results' = [cy_results EXCEPT ![y] = [state |-> "ok", count |-> count]]
    /\ cy_arrivals' = Append(cy_arrivals, y)
    /\ UNCHANGED <<cy_pc, cy_range, yearly>>
    /\ UNCHANGED notCounts

\* The request of one year raises: network error, non-2xx status, or a body
\* without response.header.total.
YearFails(y) ==
    /\ cy_pc = "gathering"
    /\ y \in DOMAIN cy_results
    /\ cy_results[y].state = "pending"
    /\ cy_results' = [cy_results EXCEPT ![y] = [state |-> "failed", count |-> 0]]
    /\ cy_arrivals' = Append(cy_arrivals, y)
    /\ UNCHANGED <<cy_pc, cy_range, yearly>>
    /\ UNCHANGED notCounts

\* gather(return_exceptions=True) returns; the results are unpacked, sorted
\* and returned.
GatherYearsReturns ==
    /\ cy_pc = "gathering"
    /\ \A y \in DOMAIN cy_results : cy_results[y].state # "pending"
    /\ yearly' = sort_by_year(Appended(range(cy_range.start, cy_range.end),
                                       cy_results))
    /\ cy_pc' = "returned"
    /\ UNCHANGED <<cy_range, cy_results, cy_arrivals>>
    /\ UNCHANGED notCounts

CountsNext ==
    \/ StartYearTasks
    \/ \E y \in FirstYear..(FirstYear + MaxSpan), count \in YearCounts :
          YearSucceeds(y, count)
    \/ \E y \in FirstYear..(FirstYear + MaxSpan) : YearFails(y)
    \/ GatherYearsReturns

\* ---------------------------------------------------------------------------
\* Sampling: stratified_sample (domain/sampling.py)
\*
\* A patent record is represented by its year: the CPC code set of a record is
\* never read by the sampler.  A stratum is represented by the number of its
\* records, and a selection by the number of selected records: which records
\* _systematic_select picks depends on floating point positions, and nothing
\* below depends on it.
\* ---------------------------------------------------------------------------

\* Default of census_threshold.
CENSUS_THRESHOLD == 5

\* Largest stratum and largest target of the enumerated inputs.
MaxStratum == 40

MaxTarget == 50

SampleYears == FirstYear..(FirstYear + 2)

StratumSizes == {0, 1, CENSUS_THRESHOLD, CENSUS_THRESHOLD + 1, 9, 20, MaxStratum}

TargetSizes == {0, 1, 3, 10, 30, MaxTarget}

Thresholds == {0, CENSUS_THRESHOLD}

NoYears == [y \in {} |-> 0]

RECURSIVE Repeat(_, _)
Repeat(year, n) == IF n = 0 THEN <<>> ELSE <<year>> \o Repeat(year, n - 1)

\* The records of a population with sz[y] records of year y.
Population(sz) ==
    Repeat(FirstYear, sz[FirstYear]) \o Repeat(FirstYear + 1, sz[FirstYear + 1])
        \o Repeat(FirstYear + 2, sz[FirstYear + 2])

Populations == { Population(sz) : sz \in [SampleYears -> StratumSizes] }

\* sum(d.values()) over the keys in S.
RECURSIVE SumOver(_, _)
SumOver(d, S) ==
    IF S = {} THEN 0
    ELSE LET y == CHOOSE z \in S : TRUE IN d[y] + SumOver(d, S \ {y})

\* {year: len(indices)} of the groups built by _group_by_year.
_group_by_year(data) ==
    [y \in Range(data) |-> Cardinality({i \in DOMAIN data : data[i] = y})]

is_census_size_Strict(size, threshold) == size < threshold
is_census_size(size, threshold) == size <= threshold

census_years(sizes, threshold) ==
    {y \in DOMAIN sizes : is_census_size(sizes[y], threshold)}

census_total(sizes, threshold) == SumOver(sizes, census_years(sizes, threshold))

remaining_target(sizes, target, threshold) == target - census_total(sizes, threshold)

non_census_total(sizes, threshold) ==
    SumOver(sizes, DOMAIN sizes \ census_years(sizes, threshold))

\* exact = remaining_target * size / non_census_total, kept as the numerator
\* over non_census_total.
exact_num(sizes, target, threshold, y) ==
    remaining_target(sizes, target, threshold) * sizes[y]

\* min(math.floor(exact), size)
floored(sizes, target, threshold, y) ==
    Min(exact_num(sizes, target, threshold, y) \div non_census_total(sizes, threshold),
        sizes[y])

\* exact - floored, as the numerator over non_census_total.
remainder_num(sizes, target, threshold, y) ==
    exact_num(sizes, target, threshold, y)
        - floored(sizes, target, threshold, y) * non_census_total(sizes, threshold)

\* The allocation before the largest-remainder correction.
FlooredAllocation(sizes, target, threshold) ==
    [y \in DOMAIN sizes |->
        IF y \in census_years(sizes, threshold) THEN sizes[y]
        ELSE floored(sizes, target, threshold, y)]

\* remainders.sort(key=lambda x: x[1], reverse=True): the orders of the
\* non-census years with non-increasing remainder.  Years of equal remainder
\* may come in either order: the sort keeps them in dict order when the float
\* remainders are equal, and rounding of exact - floored can separate them.
descending_Ascending(order, sizes, target, threshold) ==
    \A i, j \in DOMAIN order :
        i < j => remainder_num(sizes, target, threshold, order[i])
                    <= remainder_num(sizes, target, threshold, order[j])
descending(order, sizes, target, threshold) ==
    \A i, j \in DOMAIN order :
        i < j => remainder_num(sizes, target, threshold, order[i])
                    >= remainder_num(sizes, target, threshold, order[j])

SortedRemainders(sizes, target, threshold) ==
    LET nc == DOMAIN sizes \ census_years(sizes, threshold)
    IN  { order \in [1..Cardinality(nc) -> nc] :
            /\ \A i, j \in DOMAIN order : i # j => order[i] # order[j]
            /\ descending(order, sizes, target, threshold) }

\* if deficit <= 0: break
loop_breaks_OneEarly(deficit) == deficit <= 1
loop_breaks(deficit) == deficit <= 0

\* The loop over the sorted remainders, from position k on.
RECURSIVE Corrected(_, _, _, _, _)
Corrected(alloc, sizes, order, k, deficit) ==
    IF k > Len(order) \/ loop_breaks(deficit) THEN alloc
    ELSE IF alloc[order[k]] < sizes[order[k]]
         THEN Corrected([alloc EXCEPT ![order[k]] = @ + 1], sizes, order, k + 1, deficit - 1)
         ELSE Corrected(alloc, sizes, order, k + 1, deficit)

\* The allocation when the census strata use up the target, or no other
\* stratum exists.
CensusOnly(sizes, target, threshold) ==
    [y \in DOMAIN sizes |->
        IF y \in census_years(sizes, threshold) THEN sizes[y]
        ELSE IF remaining_target(sizes, target, threshold) > 0
             THEN Min(1, sizes[y]) ELSE 0]

\* _allocate_proportional, for one order of the sorted remainders.
_allocate_proportional(sizes, target, threshold, order) ==
    IF remaining_target(sizes, target, threshold) <= 0
          \/ non_census_total(sizes, threshold) = 0
    THEN CensusOnly(sizes, target, threshold)
    ELSE LET alloc == FlooredAllocation(sizes, target, threshold)
         IN  Corrected(alloc, sizes, order, 1, target - SumOver(alloc, DOMAIN alloc))

\* len(_systematic_select(indices, n)) with length = len(indices).
_systematic_select(length, n) ==
    IF n >= length THEN length ELSE IF n = 0 THEN 0 ELSE n

SamplingIdle ==
    /\ sp_pc = "off"
    /\ patent_data = <<>>
    /\ target_size = 0
    /\ census_threshold = 0
    /\ strata_sizes = NoYears
    /\ allocation = NoYears
    /\ sample_count = NoYears
    /\ sample_size = 0

SamplingInit ==
    /\ sp_pc = "called"
    /\ patent_data \in Populations
    /\ target_size \in TargetSizes
    /\ census_threshold \in Thresholds
    /\ strata_sizes = NoYears
    /\ allocation = NoYears
    /\ sample_count = NoYears
    /\ sample_size = 0

\* if target_size < 1: raise ValueError
RaiseValueError ==
    /\ sp_pc = "called"
    /\ target_size < 1
    /\ sp_pc' = "raised"
    /\ UNCHANGED <<patent_data, target_size, census_threshold, strata_sizes,
                   allocation, sample_count, sample_size>>
    /\ UNCHANGED notSampling

\* if population_size <= target_size: the input is returned as it is.
ReturnPopulation ==
    /\ sp_pc = "called"
    /\ target_size >= 1
    /\ Len(patent_data) <= target_size
    /\ strata_sizes' = _group_by_year(patent_data)
    /\ sample_count' = strata_sizes'
    /\ sample_size' = Len(patent_data)
    /\ sp_pc' = "returned"
    /\ UNCHANGED <<patent_data, target_size, census_threshold, allocation>>
    /\ UNCHANGED notSampling

\* strata = _group_by_year(patent_data)
GroupByYear ==
    /\ sp_pc = "called"
    /\ target_size >= 1
    /\ Len(patent_data) > target_size
    /\ strata_sizes' = _group_by_year(patent_data)
    /\ sp_pc' = "grouped"
    /\ UNCHANGED <<patent_data, target_size, census_threshold, allocation,
                   sample_count, sample_size>>
    /\ UNCHANGED notSampling

\* allocation = _allocate_proportional(...)
AllocateProportional ==
    /\ sp_pc = "grouped"
    /\ \E order \in SortedRemainders(strata_sizes, target_size, census_threshold) :
          allocation' = _allocate_proportional(strata_sizes, target_size,
                                               census_threshold, order)
    /\ sp_pc' = "allocated"
    /\ UNCHANGED <<patent_data, target_size, census_threshold, strata_sizes,
                   sample_count, sample_size>>
    /\ UNCHANGED notSampling

\* The loop over sorted(strata.keys()) and the construction of the result.
SelectRecords ==
    /\ sp_pc = "allocated"
    /\ sample_count' = [y \in DOMAIN strata_sizes |->
                           IF allocation[y] >= strata_sizes[y] THEN strata_sizes[y]
                           ELSE _systematic_select(strata_sizes[y], allocation[y])]
    /\ sample_size' = SumOver(sample_count', DOMAIN sample_count')
    /\ sp_pc' = "returned"
    /\ UNCHANGED <<patent_data, target_size, census_threshold, strata_sizes, allocation>>
    /\ UNCHANGED notSampling

SamplingNext ==
    \/ RaiseValueError
    \/ ReturnPopulation
    \/ GroupByYear
    \/ AllocateProportional
    \/ SelectRecords

\* ---------------------------------------------------------------------------
\* Dates: get_last_full_year (patent_repo.py, cordis_repo.py)
\*
\* A date column value is a sequence of characters; NULL and the empty string
\* are both the empty sequence (the query drops either).
\* ---------------------------------------------------------------------------

Digit == [c \in {"0", "1", "2", "3", "4", "5", "6", "7", "8", "9"} |->
            CASE c = "0" -> 0 [] c = "1" -> 1 [] c = "2" -> 2 [] c = "3" -> 3
              [] c = "4" -> 4 [] c = "5" -> 5 [] c = "6" -> 6 [] c = "7" -> 7
              [] c = "8" -> 8 [] c = "9" -> 9]

\* The characters of the stored values, with their code points (the BINARY
\* collation of SQLite compares TEXT byte by byte).
CodePoint(c) ==
    CASE c = "-" -> 45 [] c = "/" -> 47 [] c = "x" -> 120
      [] OTHER -> 48 + Digit[c]

\* a < b for TEXT values.
RECURSIVE TextLess(_, _)
TextLess(a, b) ==
    IF b = <<>> THEN FALSE
    ELSE IF a = <<>> THEN TRUE
    ELSE IF Head(a) # Head(b) THEN CodePoint(Head(a)) < CodePoint(Head(b))
    ELSE TextLess(Tail(a), Tail(b))

\* Stored values: the dates of the repository tests, a December and a January
\* date, a year alone, and values an importer copies unchecked.
DateValues ==
    { <<>>,
      <<"2", "0", "2", "4">>,
      <<"2", "0", "2", "2", "-", "1", "1", "-", "1", "5">>,
      <<"2", "0", "2", "3", "-", "0", "8", "-", "1", "0">>,
      <<"2", "0", "2", "3", "-", "1", "2", "-", "3", "1">>,
      <<"2", "0", "2", "4", "-", "0", "1", "-", "0", "5">>,
      <<"2", "0", "2", "4", "-", "-", "5", "-", "-", "1">>,
      <<"2", "0", "2", "4", "-", "1", "3", "-", "0", "1">>,
      <<"2", "0", "2", "4", "/", "1", "1", "/", "0", "5">>,
      <<"2", "0", "2", "4", "-", "1", "x", "-", "0", "1">> }

Tables == {"patents", "projects"}

\* SELECT MAX(col) FROM t WHERE col IS NOT NULL AND LENGTH(col) >= 7:
\* the row of the answer, None for the NULL of an empty selection.
SelectMax(dates) ==
    LET kept == {d \in dates : d # <<>> /\ Len(d) >= 7}
    IN  IF kept = {} THEN None
        ELSE <<CHOOSE d \in kept : \A e \in kept : e = d \/ TextLess(e, d)>>

IsDigits(s) == Len(s) >= 1 /\ \A k \in DOMAIN s : s[k] \in DOMAIN Digit

RECURSIVE DecimalValue(_)
DecimalValue(s) ==
    IF s = <<>> THEN 0
    ELSE 10 * DecimalValue(SubSeq(s, 1, Len(s) - 1)) + Digit[s[Len(s)]]

\* int(s) of Python for a string of the characters above: digits with an
\* optional sign; <<n>> for the number, None for ValueError.
int(s) ==
    IF IsDigits(s) THEN <<DecimalValue(s)>>
    ELSE IF Len(s) >= 2 /\ s[1] = "-" /\ IsDigits(Tail(s))
         THEN <<0 - DecimalValue(Tail(s))>>
         ELSE None

\* PatentRepository.get_last_full_year, from the row of the query on.
PatentRepository_get_last_full_year(dates) ==
    LET row == SelectMax(dates)
    IN  IF row = None THEN None
        ELSE LET max_date == row[1]
                 max_year == int(SubSeq(max_date, 1, 4))
                 max_month == int(SubSeq(max_date, 6, 7))
             IN  IF max_year = None \/ max_month = None THEN None
                 ELSE IF max_month[1] >= 11 THEN <<max_year[1]>>
                      ELSE <<max_year[1] - 1>>

\* CordisRepository.get_last_full_year, from the row of the query on.
CordisRepository_get_last_full_year(dates) ==
    LET row == SelectMax(dates)
    IN  IF row = None THEN None
        ELSE LET date_str == row[1]
                 year == int(SubSeq(date_str, 1, 4))
                 month == int(SubSeq(date_str, 6, 7))
             IN  IF year = None \/ month = None THEN None
                 ELSE IF month[1] >= 11 THEN <<year[1]>> ELSE <<year[1] - 1>>

DatesIdle ==
    /\ lfy_pc = "off"
    /\ table = "patents"
    /\ stored_dates = {}
    /\ last_full_year = None

DatesInit ==
    /\ lfy_pc = "called"
    /\ table \in Tables
    /\ stored_dates \in SUBSET DateValues
    /\ last_full_year = None

PatentGetLastFullYear ==
    /\ lfy_pc = "called"
    /\ table = "patents"
    /\ last_full_year' = PatentRepository_get_last_full_year(stored_dates)
    /\ lfy_pc' = "returned"
    /\ UNCHANGED <<table, stored_dates>>
    /\ UNCHANGED notDates

CordisGetLastFullYear ==
    /\ lfy_pc = "called"
    /\ table = "projects"
    /\ last_full_year' = CordisRepository_get_last_full_year(stored_dates)
    /\ lfy_pc' = "returned"
    /\ UNCHANGED <<table, stored_dates>>
    /\ UNCHANGED notDates

DatesNext ==
    \/ PatentGetLastFullYear
    \/ CordisGetLastFullYear

\* ---------------------------------------------------------------------------
\* Fts: the MATCH parameter of the repository queries (patent_repo.py,
\* cordis_repo.py), for the four queries of the landscape panel.  The other
\* query methods of a repository bind their parameter like its count_by_year.
\* ---------------------------------------------------------------------------

\* Longest technology string enumerated.
MaxQueryLen == 3

\* A letter, the hyphen (the column operator of FTS5) and the double quote.
QueryChars == {"a", "-", "\""}

Queries == UNION { [1..n -> QueryChars] : n \in 1..MaxQueryLen }

\* query.replace('"', '""')
RECURSIVE replace_quotes(_)
replace_quotes(query) ==
    IF query = <<>> THEN <<>>
    ELSE (IF Head(query) = "\"" THEN <<"\"", "\"">> ELSE <<Head(query)>>)
            \o replace_quotes(Tail(query))

_sanitize_fts5_query(query) == <<"\"">> \o replace_quotes(query) \o <<"\"">>

FtsIdle ==
    /\ fts_query = <<>>
    /\ matched = {}

FtsInit ==
    /\ fts_query \in Queries
    /\ matched = {}

Bound(tbl, method, param) == [table |-> tbl, method |-> method, param |-> param]

\* PatentRepository.count_by_year: params = [_sanitize_fts5_query(query)]
PatentCountByYear ==
    /\ fts_query # <<>>
    /\ \A b \in matched : ~(b.table = "patents" /\ b.method = "count_by_year")
    /\ matched' = matched \cup
          {Bound("patents", "count_by_year", _sanitize_fts5_query(fts_query))}
    /\ UNCHANGED fts_query
    /\ UNCHANGED notFts

\* PatentRepository.count_by_country: params = [_sanitize_fts5_query(query)]
PatentCountByCountry ==
    /\ fts_query # <<>>
    /\ \A b \in matched : ~(b.table = "patents" /\ b.method = "count_by_country")
    /\ matched' = matched \cup
          {Bound("patents", "count_by_country", _sanitize_fts5_query(fts_query))}
    /\ UNCHANGED fts_query
    /\ UNCHANGED notFts

\* CordisRepository.count_by_year: params = [query]
CordisCountByYear ==
    /\ fts_query # <<>>
    /\ \A b \in matched : ~(b.table = "projects" /\ b.method = "count_by_year")
    /\ matched' = matched \cup {Bound("projects", "count_by_year", fts_query)}
    /\ UNCHANGED fts_query
    /\ UNCHANGED notFts

\* CordisRepository.count_by_country: params = [query]
CordisCountByCountry ==
    /\ fts_query # <<>>
    /\ \A b \in matched : ~(b.table = "projects" /\ b.method = "count_by_country")
    /\ matched' = matched \cup {Bound("projects", "count_by_country", fts_query)}
    /\ UNCHANGED fts_query
    /\ UNCHANGED notFts

FtsNext ==
    \/ PatentCountByYear
    \/ PatentCountByCountry
    \/ CordisCountByYear
    \/ CordisCountByCountry

\* ---------------------------------------------------------------------------
\* Series: the per-year series and the totals of analyze_landscape,
\* analyze_funding and analyze_research_impact (use_cases/).
\*
\* The request window is start_year..end_year.  A query result is a sequence
\* of rows ordered by year, one row per year that has records (GROUP BY year
\* ORDER BY year, filtered to the window by the query).  EUR amounts are
\* counted in thousandths of a euro; the rows never hold an amount that ends
\* in half a cent.  A paper is its year, None when the API sends no year.
\* Growth rates, country lists and texts of the panels are left out: they are
\* computed from the modelled fields and feed none of them.
\* ---------------------------------------------------------------------------

start_year == FirstYear

end_year == FirstYear + 1

\* Most papers of an answer.
MaxPapers == 3

PanelKinds == {"landscape", "funding", "research_impact"}

\* Counts of a year: no row, or a row with one or three records.
RowCounts == {0, 1, 3}

\* Amounts of a year with a row, in thousandths of a euro.
RowAmounts == {4, 1500}

\* The rows of a query with counts[y] records in year y.
RECURSIVE YearRows(_, _, _)
YearRows(counts, from, to) ==
    IF from > to THEN <<>>
    ELSE (IF counts[from] = 0 THEN <<>>
          ELSE << [year |-> from, count |-> counts[from]] >>)
            \o YearRows(counts, from + 1, to)

QueryResults ==
    { YearRows(c, start_year, end_year) : c \in [start_year..end_year -> RowCounts] }

RECURSIVE FundingRows(_, _, _)
FundingRows(amounts, from, to) ==
    IF from > to THEN <<>>
    ELSE (IF amounts[from] = 0 THEN <<>>
          ELSE << [year |-> from, funding |-> amounts[from], count |-> 1] >>)
            \o FundingRows(amounts, from + 1, to)

FundingResults ==
    { FundingRows(a, start_year, end_year) :
        a \in [start_year..end_year -> RowAmounts \cup {0}] }

PaperYears == {None, <<start_year>>, <<end_year>>}

PaperLists == UNION { [1..n -> [year : PaperYears]] : n \in 0..MaxPapers }

\* sum(row[field] for row in rows)
RECURSIVE SumField(_, _)
SumField(rows, field) ==
    IF rows = <<>> THEN 0 ELSE Head(rows)[field] + SumField(Tail(rows), field)

\* {y["year"]: y["count"] for y in rows}.get(year, 0)
RECURSIVE MapGet(_, _)
MapGet(rows, year) ==
    IF rows = <<>> THEN 0
    ELSE IF rows[Len(rows)].year = year THEN rows[Len(rows)].count
    ELSE MapGet(SubSeq(rows, 1, Len(rows) - 1), year)

\* The years of the series: the window and the years of the rows, cut to
\* the window, ascending.
sorted_years(patent_years, project_years, publication_years) ==
    LET all_years == (start_year..end_year)
                        \cup {patent_years[k].year : k \in DOMAIN patent_years}
                        \cup {project_years[k].year : k \in DOMAIN project_years}
                        \cup {publication_years[k].year : k \in DOMAIN publication_years}
    IN  {y \in all_years : start_year <= y /\ y <= end_year}

RECURSIVE SeriesFrom(_, _, _, _)
SeriesFrom(years, patent_years, project_years, publication_years) ==
    IF years = {} THEN <<>>
    ELSE LET y == CHOOSE z \in years : \A w \in years : z <= w
         IN  << [year |-> y,
                 patents |-> MapGet(patent_years, y),
                 projects |-> MapGet(project_years, y),
                 publications |-> MapGet(publication_years, y)] >>
               \o SeriesFrom(years \ {y}, patent_years, project_years, publication_years)

_merge_time_series(patent_years, project_years, publication_years) ==
    SeriesFrom(sorted_years(patent_years, project_years, publication_years),
               patent_years, project_years, publication_years)

\* round(x, 2) of an amount in thousandths, as hundredths.
round2(amount) ==
    IF amount % 10 < 5 THEN amount \div 10
    ELSE IF amount % 10 > 5 THEN amount \div 10 + 1
    ELSE IF (amount \div 10) % 2 = 0 THEN amount \div 10 ELSE amount \div 10 + 1

\* The time_series of the funding panel.
RECURSIVE FundingSeries(_)
FundingSeries(rows) ==
    IF rows = <<>> THEN <<>>
    ELSE << [year |-> Head(rows).year,
             funding |-> round2(Head(rows).funding),
             projects |-> Head(rows).count] >> \o FundingSeries(Tail(rows))

\* by_year of _compute_citation_trend: the papers of each year, papers
\* without a year skipped.
paper_count(paper_list, year) ==
    Cardinality({k \in DOMAIN paper_list : paper_list[k].year = <<year>>})

RECURSIVE TrendFrom(_, _)
TrendFrom(years, paper_list) ==
    IF years = {} THEN <<>>
    ELSE LET y == CHOOSE z \in years : \A w \in years : z <= w
         IN  << [year |-> y, paper_count |-> paper_count(paper_list, y)] >>
               \o TrendFrom(years \ {y}, paper_list)

_compute_citation_trend(paper_list) ==
    TrendFrom({paper_list[k].year[1] :
                 k \in {j \in DOMAIN paper_list : paper_list[j].year # None}},
              paper_list)

NoRows == [patents |-> <<>>, projects |-> <<>>, publications |-> <<>>]

LandscapePanel ==
    [total_patents |-> 0, total_projects |-> 0, total_publications |-> 0,
     time_series |-> <<>>]

FundingPanel == [total_funding_eur |-> 0, time_series |-> <<>>]

ResearchImpactPanel == [total_papers |-> 0, citation_trend |-> <<>>]

SeriesIdle ==
    /\ se_pc = "off"
    /\ se_kind = "landscape"
    /\ year_rows = NoRows
    /\ funding_years = <<>>
    /\ found_papers = <<>>
    /\ landscape_panel = LandscapePanel
    /\ funding_panel = FundingPanel
    /\ research_panel = ResearchImpactPanel

SeriesInit ==
    /\ se_pc = "called"
    /\ se_kind \in PanelKinds
    /\ year_rows \in IF se_kind = "landscape"
                     THEN [patents : QueryResults, projects : QueryResults,
                           publications : QueryResults]
                     ELSE {NoRows}
    /\ funding_years \in IF se_kind = "funding" THEN FundingResults ELSE {<<>>}
    /\ found_papers \in IF se_kind = "research_impact" THEN PaperLists ELSE {<<>>}
    /\ landscape_panel = LandscapePanel
    /\ funding_panel = FundingPanel
    /\ research_panel = ResearchImpactPanel

\* analyze_landscape, from the results of gather on.
AnalyzeLandscape ==
    /\ se_pc = "called"
    /\ se_kind = "landscape"
    /\ landscape_panel' =
          [total_patents |-> SumField(year_rows.patents, "count"),
           total_projects |-> SumField(year_rows.projects, "count"),
           total_publications |-> SumField(year_rows.publications, "count"),
           time_series |-> _merge_time_series(year_rows.patents, year_rows.projects,
                                              year_rows.publications)]
    /\ se_pc' = "returned"
    /\ UNCHANGED <<se_kind, year_rows, funding_years, found_papers, funding_panel,
                   research_panel>>
    /\ UNCHANGED notSeries

\* analyze_funding, from the rows of funding_by_year on.
AnalyzeFunding ==
    /\ se_pc = "called"
    /\ se_kind = "funding"
    /\ funding_panel' =
          [total_funding_eur |-> round2(SumField(funding_years, "funding")),
           time_series |-> FundingSeries(funding_years)]
    /\ se_pc' = "returned"
    /\ UNCHANGED <<se_kind, year_rows, funding_years, found_papers, landscape_panel,
                   research_panel>>
    /\ UNCHANGED notSeries

\* analyze_research_impact, from the answer of search_papers on.
AnalyzeResearchImpact ==
    /\ se_pc = "called"
    /\ se_kind = "research_impact"
    /\ research_panel' =
          IF found_papers = <<>> THEN ResearchImpactPanel
          ELSE [total_papers |-> Len(found_papers),
                citation_trend |-> _compute_citation_trend(found_papers)]
    /\ se_pc' = "returned"
    /\ UNCHANGED <<se_kind, year_rows, funding_years, found_papers, landscape_panel,
                   funding_panel>>
    /\ UNCHANGED notSeries

SeriesNext ==
    \/ AnalyzeLandscape
    \/ AnalyzeFunding
    \/ AnalyzeResearchImpact

\* ---------------------------------------------------------------------------
\* Jaccard: build_cooccurrence and build_jaccard_from_sql (domain/cpc_flow.py)
\*
\* The patents are those extract_cpc_sets keeps: each carries two or more
\* codes.  build_jaccard_from_sql gets the aggregates that the queries of
\* compute_cpc_jaccard draw from the same patents.  A Jaccard value is kept
\* as a number of ten-thousandths, the unit of round(x, 4).
\* ---------------------------------------------------------------------------

\* Most patents of an input.
MaxPatents == 3

CpcCodes == {"A01B", "G06N", "H01L"}

\* The order of the codes as TEXT.
CodeRank == [c \in CpcCodes |-> CASE c = "A01B" -> 1 [] c = "G06N" -> 2 [] c = "H01L" -> 3]

\* if len(codes) >= 2: result.append(codes)
CodeSets == {s \in SUBSET CpcCodes : Cardinality(s) >= 2}

PatentSetLists == UNION { [1..n -> CodeSets] : n \in 0..MaxPatents }

TopNs == {2, 3}

\* The patents that carry the code.
PatentsOf(sets, code) == {k \in DOMAIN sets : code \in sets[k]}

\* code_counter[code]
code_counter(sets, code) == Cardinality(PatentsOf(sets, code))

\* The results most_common(top_n) can give: the top_n most frequent codes,
\* most frequent first.  Codes of equal frequency come in the order of their
\* first count, which follows the iteration order of the code sets; the SQL
\* ORDER BY cnt DESC LIMIT ? leaves their order open as well.
most_common(sets, n) ==
    LET present == {c \in CpcCodes : code_counter(sets, c) > 0}
        k == Min(n, Cardinality(present))
    IN  { top \in [1..k -> present] :
            /\ \A i, j \in 1..k : i # j => top[i] # top[j]
            /\ \A i, j \in 1..k :
                  i < j => code_counter(sets, top[i]) >= code_counter(sets, top[j])
            /\ \A c \in present \ Range(top) :
                  \A i \in 1..k : code_counter(sets, top[i]) >= code_counter(sets, c) }

\* [[0.0] * n for _ in range(n)]
ZeroMatrix(n) == [i \in 1..n |-> [j \in 1..n |-> 0]]

\* round(num / den, 4) in ten-thousandths.
round4(num, den) ==
    LET q == (num * 10000) \div den
        r == (num * 10000) % den
    IN  IF 2 * r < den THEN q
        ELSE IF 2 * r > den THEN q + 1
        ELSE IF q % 2 = 0 THEN q ELSE q + 1

\* matrix[a][b] = value; matrix[b][a] = value
store_pair_OneWay(m, a, b, value) == [m EXCEPT ![a][b] = value]
store_pair(m, a, b, value) == [m EXCEPT ![a][b] = value, ![b][a] = value]

\* The keys of pair_counts: the index pairs of combinations(sorted(relevant), 2)
\* over all patents.
pair_keys(sets, top) ==
    { p \in (DOMAIN top) \X (DOMAIN top) :
        /\ p[1] < p[2]
        /\ \E k \in DOMAIN sets : top[p[1]] \in sets[k] /\ top[p[2]] \in sets[k] }

\* pair_counts[(a, b)]
pair_count(sets, top, p) ==
    Cardinality(PatentsOf(sets, top[p[1]]) \cap PatentsOf(sets, top[p[2]]))

\* The loop over pair_counts.items() of build_cooccurrence.
RECURSIVE FillMatrix(_, _, _, _)
FillMatrix(m, keys, sets, top) ==
    IF keys = {} THEN m
    ELSE LET p == CHOOSE q \in keys : TRUE
             count == pair_count(sets, top, p)
             union_size == Cardinality(PatentsOf(sets, top[p[1]])
                                          \cup PatentsOf(sets, top[p[2]]))
             jaccard == IF union_size > 0 THEN round4(count, union_size) ELSE 0
         IN  FillMatrix(IF count < 1 THEN m ELSE store_pair(m, p[1], p[2], jaccard),
                        keys \ {p}, sets, top)

\* build_cooccurrence for one order of the top codes.
build_cooccurrence(sets, top) ==
    IF Len(top) < 2
    THEN [labels |-> top, matrix |-> <<>>, total_connections |-> 0]
    ELSE [labels |-> top,
          matrix |-> FillMatrix(ZeroMatrix(Len(top)), pair_keys(sets, top), sets, top),
          total_connections |-> Cardinality(pair_keys(sets, top))]

\* The rows of the co-occurrence query: code_a < code_b, both among the top
\* codes, with the number of patents that carry both.
co_rows(sets, top) ==
    { [code_a |-> a, code_b |-> b,
       co_count |-> Cardinality(PatentsOf(sets, a) \cap PatentsOf(sets, b))] :
        <<a, b>> \in { p \in Range(top) \X Range(top) :
                         /\ CodeRank[p[1]] < CodeRank[p[2]]
                         /\ PatentsOf(sets, p[1]) \cap PatentsOf(sets, p[2]) # {} } }

\* code_counts of the per-code query.
code_counts(sets, top) == [c \in Range(top) |-> code_counter(sets, c)]

\* code_index.get(code)
code_index_Reversed(top, code) ==
    Len(top) + 1 - (CHOOSE i \in DOMAIN top : top[i] = code)
\* code_index.get(code)
code_index(top, code) == CHOOSE i \in DOMAIN top : top[i] = code

\* The loop over pair_counts of build_jaccard_from_sql.
RECURSIVE FillFromSql(_, _, _, _)
FillFromSql(m, rows, counts, top) ==
    IF rows = {} THEN m
    ELSE LET row == CHOOSE r \in rows : TRUE
             known == row.code_a \in Range(top) /\ row.code_b \in Range(top)
             union == counts[row.code_a] + counts[row.code_b] - row.co_count
             rounded == IF union > 0 THEN round4(row.co_count, union) ELSE 0
         IN  FillFromSql(IF row.co_count < 1 \/ ~known THEN m
                         ELSE store_pair(m, code_index(top, row.code_a),
                                         code_index(top, row.code_b), rounded),
                         rows \ {row}, counts, top)

build_jaccard_from_sql(top, counts, rows) ==
    IF Len(top) < 2 THEN [matrix |-> <<>>, total_connections |-> 0]
    ELSE [matrix |-> FillFromSql(ZeroMatrix(Len(top)), rows, counts, top),
          total_connections |-> Cardinality({r \in rows : r.co_count >= 1})]

JaccardIdle ==
    /\ cf_pc = "off"
    /\ sq_pc = "off"
    /\ patent_sets = <<>>
    /\ top_n = 0
    /\ labels = <<>>
    /\ matrix = <<>>
    /\ total_connections = 0
    /\ sql_top_codes = <<>>
    /\ sql_matrix = <<>>
    /\ sql_connections = 0

JaccardInit ==
    /\ cf_pc = "called"
    /\ sq_pc = "called"
    /\ patent_sets \in PatentSetLists
    /\ top_n \in TopNs
    /\ labels = <<>>
    /\ matrix = <<>>
    /\ total_connections = 0
    /\ sql_top_codes = <<>>
    /\ sql_matrix = <<>>
    /\ sql_connections = 0

BuildCooccurrence ==
    /\ cf_pc = "called"
    /\ \E top \in most_common(patent_sets, top_n) :
          /\ labels' = build_cooccurrence(patent_sets, top).labels
          /\ matrix' = build_cooccurrence(patent_sets, top).matrix
          /\ total_connections' = build_cooccurrence(patent_sets, top).total_connections
    /\ cf_pc' = "returned"
    /\ UNCHANGED <<sq_pc, patent_sets, top_n, sql_top_codes, sql_matrix, sql_connections>>
    /\ UNCHANGED notJaccard

BuildJaccardFromSql ==
    /\ sq_pc = "called"
    /\ \E top \in most_common(patent_sets, top_n) :
          LET result == build_jaccard_from_sql(top, code_counts(patent_sets, top),
                                               co_rows(patent_sets, top))
          IN  /\ sql_top_codes' = top
              /\ sql_matrix' = result.matrix
              /\ sql_connections' = result.total_connections
    /\ sq_pc' = "returned"
    /\ UNCHANGED <<cf_pc, patent_sets, top_n, labels, matrix, total_connections>>
    /\ UNCHANGED notJaccard

JaccardNext ==
    \/ BuildCooccurrence
    \/ BuildJaccardFromSql

\* ------------------------------------------------------------------------
\* Select: domain/sampling.py, the positions _systematic_select picks
\* ------------------------------------------------------------------------

\* Longest index list handed to _systematic_select.
MaxIndices == 16

\* start + i * step as a fraction: (2i + 1) * total / (2n).
position_num(length, n, i) == (2 * i + 1) * length

position_den(n) == 2 * n

\* Triples (total, n, i), total up to MaxIndices + 1, for which the exact
\* value of start + i * step is an integer but its evaluation in IEEE-754
\* doubles (step = total / n rounded, start = step / 2.0, i * step rounded,
\* the sum rounded) is the double just below that integer.
FloatShortfalls ==
    { <<12, 7, 3>>, <<12, 9, 7>>, <<16, 12, 7>>, <<16, 12, 10>>,
      <<16, 14, 10>> }

\* int(start + i * step): truncation of the double.
position(length, n, i) ==
    IF <<length, n, i>> \in FloatShortfalls
    THEN (position_num(length, n, i) \div position_den(n)) - 1
    ELSE position_num(length, n, i) \div position_den(n)

\* _systematic_select over indices = [0, 1, ..., total - 1], as the list of
\* the positions it returns.
systematic_positions(length, n) ==
    IF n >= length THEN [k \in 1..length |-> k - 1]
    ELSE IF n = 0 THEN <<>>
    ELSE [k \in 1..n |-> position(length, n, k - 1)]

SelectIdle ==
    /\ sel_pc = "idle"
    /\ sel_total = 0
    /\ sel_n = 0
    /\ selected = <<>>

SelectInit ==
    /\ sel_pc = "called"
    /\ sel_total \in 0..MaxIndices
    /\ sel_n \in 0..(MaxIndices + 1)
    /\ selected = <<>>

SystematicSelect ==
    /\ sel_pc = "called"
    /\ selected' = systematic_positions(sel_total, sel_n)
    /\ sel_pc' = "returned"
    /\ UNCHANGED <<sel_total, sel_n>>
    /\ UNCHANGED notSelect

SelectNext ==
    \/ SystematicSelect

\* ------------------------------------------------------------------------
\* Degrade: how a failed call to an external adapter reaches the warnings
\* (openaire_adapter.py count_by_year, semantic_scholar_adapter.py
\* search_papers, use_cases/landscape.py, use_cases/research_impact.py)
\* ------------------------------------------------------------------------

\* limit=200 of the search_papers call in analyze_research_impact.
search_limit == 200

\* range(start_year, end_year + 1) of the longest window.
PublicationYears == FirstYear..(FirstYear + MaxSpan)

\* What a page request of search_papers can bring: a full page with more to
\* come, a full page that is the last, a page without papers, a failure.
PageOutcomes == {"more", "final", "empty", "error"}

\* count_by_year after the gather: dicts are kept, exceptions are logged.
count_by_year_result(results) ==
    [kind |-> "list",
     years |-> { y \in DOMAIN results : results[y] = "dict" }]

\* The result loop of analyze_landscape for the task publication_years.
landscape_warnings(result) ==
    IF result.kind = "exception"
    THEN <<"Query 'publication_years' fehlgeschlagen">>
    ELSE <<>>

\* analyze_research_impact around and after search_papers.
research_warnings(result) ==
    IF result.kind = "exception"
    THEN <<"Semantic Scholar Abfrage fehlgeschlagen">>
    ELSE IF result.papers >= 200
    THEN <<"h-Index basiert auf Top-200 relevantesten Papers">>
    ELSE <<>>

DegradeIdle ==
    /\ pub_pc = "off"
    /\ pub_results = [y \in PublicationYears |-> "off"]
    /\ ls_warnings = <<>>
    /\ ssp_pc = "off"
    /\ ssp_papers = 0
    /\ ri_warnings = <<>>
    /\ adapter_failures = {}
    /\ provenance_warnings = None

DegradeInit ==
    /\ pub_pc = "gathering"
    /\ pub_results = [y \in PublicationYears |-> "pending"]
    /\ ls_warnings = <<>>
    /\ ssp_pc = "paging"
    /\ ssp_papers = 0
    /\ ri_warnings = <<>>
    /\ adapter_failures = {}
    /\ provenance_warnings = None

\* _count_single_year(year) returns its dict.
PublicationYearSucceeds(y) ==
    /\ pub_pc = "gathering"
    /\ pub_results[y] = "pending"
    /\ pub_results' = [pub_results EXCEPT ![y] = "dict"]
    /\ UNCHANGED <<pub_pc, ls_warnings, ssp_pc, ssp_papers, ri_warnings,
                   adapter_failures, provenance_warnings>>
    /\ UNCHANGED notDegrade

\* _count_single_year(year) raises; gather(return_exceptions=True) keeps
\* the exception as that year's result.
PublicationYearFails(y) ==
    /\ pub_pc = "gathering"
    /\ pub_results[y] = "pending"
    /\ pub_results' = [pub_results EXCEPT ![y] = "exception"]
    /\ adapter_failures' = adapter_failures \cup
                              {[adapter |-> "openaire", at |-> y]}
    /\ UNCHANGED <<pub_pc, ls_warnings, ssp_pc, ssp_papers, ri_warnings,
                   provenance_warnings>>
    /\ UNCHANGED notDegrade

\* The gather of count_by_year is complete: the function returns the list of
\* the dicts, and analyze_landscape takes it as publication_years.
LandscapeTakesPublicationYears ==
    /\ pub_pc = "gathering"
    /\ \A y \in PublicationYears : pub_results[y] # "pending"
    /\ ls_warnings' = ls_warnings \o landscape_warnings(count_by_year_result(pub_results))
    /\ pub_pc' = "returned"
    /\ UNCHANGED <<pub_results, ssp_pc, ssp_papers, ri_warnings,
                   adapter_failures, provenance_warnings>>
    /\ UNCHANGED notDegrade

\* What analyze_research_impact does with the list search_papers returns.
ResearchReturns(count) ==
    /\ ssp_pc' = "returned"
    /\ ri_warnings' = ri_warnings \o
                        research_warnings([kind |-> "list", papers |-> count])

\* One page request of search_papers is answered.  A failure leaves the
\* loop through except Exception, which logs; the papers fetched so far are
\* returned.
PageAnswered(outcome) ==
    /\ ssp_pc = "paging"
    /\ ssp_papers < search_limit
    /\ IF outcome = "error"
       THEN /\ adapter_failures' = adapter_failures \cup
                   {[adapter |-> "semantic_scholar", at |-> ssp_papers]}
            /\ UNCHANGED ssp_papers
            /\ ResearchReturns(ssp_papers)
       ELSE IF outcome = "empty"
       THEN /\ UNCHANGED <<ssp_papers, adapter_failures>>
            /\ ResearchReturns(ssp_papers)
       ELSE /\ ssp_papers' = ssp_papers + PAGE_SIZE
            /\ UNCHANGED adapter_failures
            /\ IF outcome = "final" \/ ssp_papers + PAGE_SIZE >= search_limit
               THEN ResearchReturns(ssp_papers + PAGE_SIZE)
               ELSE UNCHANGED <<ssp_pc, ri_warnings>>
    /\ UNCHANGED <<pub_pc, pub_results, ls_warnings, provenance_warnings>>
    /\ UNCHANGED notDegrade

\* analyze_technology collects the warnings of the panels into the response.
BuildProvenance ==
    /\ pub_pc = "returned"
    /\ ssp_pc = "returned"
    /\ provenance_warnings = None
    /\ provenance_warnings' = <<ls_warnings \o ri_warnings>>
    /\ UNCHANGED <<pub_pc, pub_results, ls_warnings, ssp_pc, ssp_papers,
                   ri_warnings, adapter_failures>>
    /\ UNCHANGED notDegrade

DegradeNext ==
    \/ \E y \in PublicationYears : PublicationYearSucceeds(y)
    \/ \E y \in PublicationYears : PublicationYearFails(y)
    \/ LandscapeTakesPublicationYears
    \/ \E outcome \in PageOutcomes : PageAnswered(outcome)
    \/ BuildProvenance

\* ------------------------------------------------------------------------
\* Maturity: use_cases/maturity.py with s_curve_confidence and
\* classify_maturity_phase of domain/metrics.py
\*
\* A confidence is kept in hundredths, a maturity percentage in hundredths
\* of a percent, R squared in ten-thousandths (the unit of round(x, 4) in
\* domain/scurve.py).  The growth figures of the fallback heuristic are
\* fractions [num, den] with den > 0.
\* ------------------------------------------------------------------------

\* Patents a year's row may report.
PatentCounts == {0, 10, 30}

\* R squared of a fit: 1 - ss_res/ss_tot is negative for a fit worse than
\* the mean.
RSquaredValues == {-5000, 0, 5000, 9500, 10000}

\* maturity_percent of a fit, at and next to the phase thresholds.
MaturityPercents == {0, 999, 1000, 4999, 5000, 8999, 9000, 10000}

min_patents_for_fit == 30

\* What fit_best_model can return: None, or the better model's result.
FitOutcomes ==
    {None} \cup { <<[r_squared |-> r, maturity_percent |-> p]>> :
                    r \in RSquaredValues, p \in MaturityPercents }

\* round() of num / den to an integer; a tie goes to the even neighbour
\* (no tie arises for the counts and windows of up to three years tried).
round_half_even(num, den) ==
    LET q == num \div den
        r == num % den
    IN  IF 2 * r < den THEN q
        ELSE IF 2 * r > den THEN q + 1
        ELSE IF q % 2 = 0 THEN q ELSE q + 1

\* s_curve_confidence: 0.6 R^2 + 0.2 min(1, n_years/15)
\* + 0.2 min(1, total_patents/200), clamped to [0.1, 0.95], in units of
\* 1/150000 before round(x, 2).
s_curve_confidence(r_squared, n_years, total_patents) ==
    LET raw == 9 * r_squared + 2000 * Min(15, n_years)
                 + 150 * Min(200, total_patents)
        clamped == Min(142500, IF raw < 15000 THEN 15000 ELSE raw)
    IN  round_half_even(clamped, 1500)

\* The thresholds of Gao et al. on maturity_percent.
scurve_phase_AtMost(maturity_percent) ==
    IF maturity_percent <= 1000 THEN "Emerging"
    ELSE IF maturity_percent <= 5000 THEN "Growing"
    ELSE IF maturity_percent <= 9000 THEN "Mature"
    ELSE "Saturation"
scurve_phase(maturity_percent) ==
    IF maturity_percent < 1000 THEN "Emerging"
    ELSE IF maturity_percent < 5000 THEN "Growing"
    ELSE IF maturity_percent < 9000 THEN "Mature"
    ELSE "Saturation"

RECURSIVE SumSeq(_)
SumSeq(s) == IF s = <<>> THEN 0 ELSE Head(s) + SumSeq(Tail(s))

RECURSIVE SumSquares(_)
SumSquares(s) == IF s = <<>> THEN 0 ELSE Head(s) * Head(s) + SumSquares(Tail(s))

\* The root of a square number (the variance of a second half of two years
\* is a square).
IntegerRoot(x) == CHOOSE k \in 0..x : k * k <= x /\ (k + 1) * (k + 1) > x

\* f > a/b, f < a/b and |f| <= a/b for a fraction f and b > 0.
Above(f, a, b) == f.num * b > a * f.den

Below(f, a, b) == f.num * b < a * f.den

Magnitude(f) == [num |-> IF f.num < 0 THEN -f.num ELSE f.num, den |-> f.den]

\* round(min(0.9, base + 0.3 * f), 2) for base given in hundredths.
heuristic_confidence(base, f) ==
    Min(90, round_half_even(base * f.den + 30 * f.num, f.den))

\* The growth-pattern heuristic of classify_maturity_phase (no
\* maturity_percent given).
growth_heuristic(yearly_counts) ==
    IF Len(yearly_counts) < 3 THEN [phase |-> "Unknown", confidence |-> 0]
    ELSE
    LET n == Len(yearly_counts)
        mid == n \div 2
        first_half == SubSeq(yearly_counts, 1, mid)
        second_half == SubSeq(yearly_counts, mid + 1, n)
        sum_first == SumSeq(first_half)
        sum_second == SumSeq(second_half)
        n_first == Len(first_half)
        n_second == Len(second_half)
        recent == SubSeq(yearly_counts, n - 2, n)
        recent_growth ==
            IF recent[1] > 0
            THEN [num |-> recent[3] - recent[1], den |-> recent[1]]
            ELSE [num |-> 0, den |-> 1]
        overall_growth ==
            IF sum_first > 0
            THEN [num |-> sum_second * n_first - sum_first * n_second,
                  den |-> sum_first * n_second]
            ELSE [num |-> IF sum_second > 0 THEN 1 ELSE 0, den |-> 1]
        \* cv = sqrt(variance) / avg_second
        cv == IF sum_second > 0
              THEN [num |-> IntegerRoot(n_second * SumSquares(second_half)
                                           - sum_second * sum_second),
                    den |-> sum_second]
              ELSE [num |-> 1, den |-> 1]
        one_minus_cv == [num |-> cv.den - cv.num, den |-> cv.den]
    IN  IF SumSeq(yearly_counts) = 0
        THEN [phase |-> "Unknown", confidence |-> 0]
        ELSE IF Above(overall_growth, 5, 10) /\ Above(recent_growth, 1, 10)
        THEN [phase |-> "Emerging",
              confidence |-> heuristic_confidence(50, overall_growth)]
        ELSE IF Above(overall_growth, 1, 10) /\ Above(recent_growth, -1, 10)
        THEN [phase |-> "Growing",
              confidence |-> heuristic_confidence(50, one_minus_cv)]
        ELSE IF ~Above(Magnitude(overall_growth), 2, 10) /\ Below(cv, 4, 10)
        THEN [phase |-> "Mature",
              confidence |-> heuristic_confidence(60, one_minus_cv)]
        ELSE IF Below(overall_growth, -1, 10) \/ Below(recent_growth, -2, 10)
        THEN [phase |-> "Declining",
              confidence |-> heuristic_confidence(50, Magnitude(overall_growth))]
        ELSE [phase |-> "Growing", confidence |-> 40]

\* classify_maturity_phase(yearly_counts, maturity_percent, r_squared) with
\* maturity_percent and r_squared as options.
classify_maturity_phase(yearly_counts, maturity_percent, r_squared) ==
    IF maturity_percent # None
    THEN [phase |-> scurve_phase(maturity_percent[1]),
          confidence |->
              round_half_even(
                  Min(9500, IF r_squared = None \/ r_squared = <<0>>
                            THEN 5000 ELSE r_squared[1]), 100)]
    ELSE growth_heuristic(yearly_counts)

\* effective_patent_end_year of use_cases/_helpers.py.
effective_patent_end_year(last_full, until) ==
    IF last_full # None /\ last_full[1] < until THEN last_full[1] ELSE until

\* all_years = sorted(set(range(start_year, end_year + 1)))
all_years(until) == [i \in 1..(until - FirstYear + 1) |-> FirstYear + i - 1]

\* combined: patent_years.get(year, 0) for each year of the window.
combined_counts(years, counts) ==
    [i \in 1..Len(years) |->
        IF years[i] \in DOMAIN counts THEN counts[years[i]] ELSE 0]

\* list(itertools.accumulate(combined))
accumulate(s) == [i \in 1..Len(s) |-> SumSeq(SubSeq(s, 1, i))]

\* fit_end_idx: the index of the first year after effective_end_year, or
\* the length of the window.
fit_end_idx(years, effective_end) ==
    IF \E i \in 1..Len(years) : years[i] > effective_end
    THEN (CHOOSE i \in 1..Len(years) :
            /\ years[i] > effective_end
            /\ \A j \in 1..(i - 1) : years[j] <= effective_end) - 1
    ELSE Len(years)

\* The cagr(first_value, last_value, periods) call, or None.
cagr_arguments(fit_years, fit_combined) ==
    LET non_zero_indices == { i \in 1..Len(fit_combined) : fit_combined[i] > 0 }
        first_idx == CHOOSE i \in non_zero_indices :
                        \A j \in non_zero_indices : i <= j
        last_idx == CHOOSE i \in non_zero_indices :
                       \A j \in non_zero_indices : i >= j
    IN  IF Cardinality(non_zero_indices) >= 2
           /\ fit_years[last_idx] - fit_years[first_idx] > 0
        THEN <<[first_value |-> fit_combined[first_idx],
                last_value |-> fit_combined[last_idx],
                first_year |-> fit_years[first_idx],
                last_year |-> fit_years[last_idx],
                periods |-> fit_years[last_idx] - fit_years[first_idx]]>>
        ELSE None

\* Whether the S-curve fit is attempted.
fit_attempted_Any(fit_cumulative) ==
    fit_cumulative # <<>> /\ fit_cumulative[Len(fit_cumulative)] > 0
fit_attempted(fit_cumulative) ==
    fit_cumulative # <<>>
        /\ fit_cumulative[Len(fit_cumulative)] >= min_patents_for_fit

MaturityIdle ==
    /\ mat_pc = "off"
    /\ mat_db_available = FALSE
    /\ mat_end_year = FirstYear
    /\ mat_rows = <<>>
    /\ mat_last_full = None
    /\ mat_patent_years = <<>>
    /\ effective_end_year = FirstYear
    /\ fit_call = None
    /\ cagr_call = None
    /\ mat_warnings = <<>>
    /\ maturity_panel = None

MaturityInit ==
    /\ mat_pc = "called"
    /\ mat_db_available \in BOOLEAN
    /\ mat_end_year \in FirstYear..(FirstYear + MaxSpan)
    /\ mat_rows \in [FirstYear..mat_end_year -> PatentCounts]
    /\ mat_last_full \in {None} \cup { <<y>> : y \in (FirstYear - 1)..(FirstYear + MaxSpan) }
    /\ mat_patent_years = <<>>
    /\ effective_end_year = mat_end_year
    /\ fit_call = None
    /\ cagr_call = None
    /\ mat_warnings = <<>>
    /\ maturity_panel = None

\* The warning effective_patent_end_year appends.
incomplete_warning(last_full, until) ==
    IF last_full # None /\ last_full[1] < until
    THEN <<"Patent-Daten unvollstaendig">>
    ELSE <<>>

\* The warnings of the fit decision and of the fallback branch.
fit_warnings(cumulative, fit_cumulative, fitted) ==
    (IF fit_attempted(fit_cumulative) THEN <<>>
     ELSE IF fit_cumulative # <<>> /\ fit_cumulative[Len(fit_cumulative)] > 0
     THEN <<"Zu wenige Patente fuer S-Curve-Fit">>
     ELSE <<>>)
    \o (IF ~fitted /\ cumulative # <<>> /\ cumulative[Len(cumulative)] > 0
            /\ fit_attempted(fit_cumulative)
        THEN <<"S-Curve-Fit fehlgeschlagen">>
        ELSE <<>>)

\* The patent store does not exist: the query block is skipped.
NoPatentStore ==
    /\ mat_pc = "called"
    /\ ~mat_db_available
    /\ mat_pc' = "queried"
    /\ UNCHANGED <<mat_db_available, mat_end_year, mat_rows, mat_last_full,
                   mat_patent_years, effective_end_year, fit_call, cagr_call,
                   mat_warnings, maturity_panel>>
    /\ UNCHANGED notMaturity

\* The count query and get_last_full_year both return.
PatentQueryReturns ==
    /\ mat_pc = "called"
    /\ mat_db_available
    /\ mat_patent_years' = mat_rows
    /\ effective_end_year' = effective_patent_end_year(mat_last_full, mat_end_year)
    /\ mat_warnings' = mat_warnings \o incomplete_warning(mat_last_full, mat_end_year)
    /\ mat_pc' = "queried"
    /\ UNCHANGED <<mat_db_available, mat_end_year, mat_rows, mat_last_full,
                   fit_call, cagr_call, maturity_panel>>
    /\ UNCHANGED notMaturity

\* The query block raises, in the count query or in get_last_full_year
\* after the counts were taken: the except branch warns and goes on.
PatentQueryFails(stage) ==
    /\ mat_pc = "called"
    /\ mat_db_available
    /\ mat_patent_years' = IF stage = "counts" THEN <<>> ELSE mat_rows
    /\ mat_warnings' = Append(mat_warnings, "Patent-Abfrage fehlgeschlagen")
    /\ mat_pc' = "queried"
    /\ UNCHANGED <<mat_db_available, mat_end_year, mat_rows, mat_last_full,
                   effective_end_year, fit_call, cagr_call, maturity_panel>>
    /\ UNCHANGED notMaturity

\* analyze_maturity after the query block, for the answer fit_best_model
\* gives if it is called.
BuildMaturityPanel(outcome) ==
    /\ mat_pc = "queried"
    /\ LET years == all_years(mat_end_year)
           combined == combined_counts(years, mat_patent_years)
           cumulative == accumulate(combined)
           idx == fit_end_idx(years, effective_end_year)
           fit_combined == SubSeq(combined, 1, idx)
           fit_years == SubSeq(years, 1, idx)
           fit_cumulative == SubSeq(cumulative, 1, idx)
           attempted == fit_attempted(fit_cumulative)
           fallback == classify_maturity_phase(combined, None, None)
       IN  /\ IF attempted /\ Len(fit_years) >= 3 THEN TRUE ELSE outcome = None
           /\ cagr_call' = cagr_arguments(fit_years, fit_combined)
           /\ mat_warnings' = mat_warnings
                                \o fit_warnings(cumulative, fit_cumulative,
                                                outcome # None)
           /\ fit_call' = IF attempted
                          THEN <<[years |-> fit_years,
                                  cumulative |-> fit_cumulative]>>
                          ELSE None
           /\ maturity_panel' =
                IF outcome # None
                THEN <<[phase |-> classify_maturity_phase(
                                      combined,
                                      <<outcome[1].maturity_percent>>,
                                      <<outcome[1].r_squared>>).phase,
                        confidence |-> s_curve_confidence(
                                          outcome[1].r_squared, Len(fit_years),
                                          fit_cumulative[Len(fit_cumulative)]),
                        maturity_percent |-> outcome[1].maturity_percent,
                        r_squared |-> outcome[1].r_squared,
                        fitted |-> TRUE]>>
                ELSE <<[phase |-> fallback.phase,
                        confidence |-> fallback.confidence,
                        maturity_percent |-> 0,
                        r_squared |-> 0,
                        fitted |-> FALSE]>>
    /\ mat_pc' = "returned"
    /\ UNCHANGED <<mat_db_available, mat_end_year, mat_rows, mat_last_full,
                   mat_patent_years, effective_end_year>>
    /\ UNCHANGED notMaturity

MaturityNext ==
    \/ NoPatentStore
    \/ PatentQueryReturns
    \/ \E stage \in {"counts", "last_full_year"} : PatentQueryFails(stage)
    \/ \E outcome \in FitOutcomes : BuildMaturityPanel(outcome)

\* ------------------------------------------------------------------------
\* Hhi: hhi_index (domain/metrics.py) and the shares analyze_competitive
\* hands to it.  A share is a numerator over a common denominator; the
\* index is kept in units of 1/den^2.
\* ------------------------------------------------------------------------

\* Most entries of a list of shares, or actors of a request.
MaxActors == 3

\* Denominator of the shares given directly, and the largest actor count.
ShareUnits == 4

HhiInputs == UNION { [1..n -> 0..ShareUnits] : n \in 0..MaxActors }

\* sum(s * s for s in shares) * 10_000 without the squaring.
hhi_index_Linear(shares, den) ==
    IF shares = <<>> THEN [value |-> 0, den |-> 1]
    ELSE [value |-> SumSeq(shares) * den * 10000, den |-> den]
\* hhi_index: 0.0 for no shares, else sum(s * s for s in shares) * 10_000.
hhi_index(shares, den) ==
    IF shares = <<>> THEN [value |-> 0, den |-> 1]
    ELSE [value |-> SumSquares(shares) * 10000, den |-> den]

HhiIdle ==
    /\ hhi_pc = "off"
    /\ hhi_values = <<>>
    /\ hhi_shares = None
    /\ hhi = None

HhiInit ==
    /\ hhi_pc = "called"
    /\ hhi_values \in HhiInputs
    /\ hhi_shares = None
    /\ hhi = None

\* hhi_index on a list of shares, each within [0, 1], that sum to at most 1.
HhiOfShares ==
    /\ hhi_pc = "called"
    /\ SumSeq(hhi_values) <= ShareUnits
    /\ hhi_shares' = <<[nums |-> hhi_values, den |-> ShareUnits]>>
    /\ hhi' = <<hhi_index(hhi_values, ShareUnits)>>
    /\ hhi_pc' = "returned"
    /\ UNCHANGED hhi_values
    /\ UNCHANGED notHhi

\* analyze_competitive over the merged actor counts: shares are
\* count / total_activity, and no shares at all if the total is 0.
CompetitiveHhi ==
    /\ hhi_pc = "called"
    /\ hhi_values # <<>>
    /\ LET total_activity == SumSeq(hhi_values)
           shares == IF total_activity > 0
                     THEN [nums |-> hhi_values, den |-> total_activity]
                     ELSE [nums |-> <<>>, den |-> 1]
       IN  /\ hhi_shares' = <<shares>>
           /\ hhi' = <<hhi_index(shares.nums, shares.den)>>
    /\ hhi_pc' = "returned"
    /\ UNCHANGED hhi_values
    /\ UNCHANGED notHhi

HhiNext ==
    \/ HhiOfShares
    \/ CompetitiveHhi

\* ------------------------------------------------------------------------
\* Jwt: check_jwt_expiry (domain/api_health.py)
\* ------------------------------------------------------------------------

_EXPIRY_WARNING_SECONDS == 259200

\* The time of the check.
JwtNow == 1000000

\* Seconds left on a token with an exp claim (negative: expired).
JwtRemaining ==
    {-3600, -1, 0, 1, 3600, 86400, _EXPIRY_WARNING_SECONDS - 1,
     _EXPIRY_WARNING_SECONDS, _EXPIRY_WARNING_SECONDS + 1}

\* Tokens: the empty string, text without a dot, dotted text whose second
\* part does not decode to a JSON object, a JWT without exp, JWTs with exp.
JwtTokens ==
    { [kind |-> k, exp |-> 0] : k \in {"empty", "no_dot", "undecodable", "no_exp"} }
        \cup { [kind |-> "jwt", exp |-> JwtNow + r] : r \in JwtRemaining }

\* check_jwt_expiry with the refresh token disregarded.
check_jwt_expiry_IgnoresRefresh(token, current_time, has_refresh) ==
    IF token.kind # "jwt" THEN None
    ELSE IF token.exp - current_time <= 0
    THEN <<[source |-> "OpenAIRE", level |-> "error"]>>
    ELSE IF token.exp - current_time < _EXPIRY_WARNING_SECONDS
    THEN <<[source |-> "OpenAIRE", level |-> "warning"]>>
    ELSE None
\* check_jwt_expiry(token, source_name, now=..., has_refresh_token=...).
check_jwt_expiry(token, current_time, has_refresh) ==
    IF token.kind \in {"empty", "no_dot"} THEN None
    ELSE IF token.kind = "undecodable" THEN None
    ELSE IF token.kind = "no_exp" THEN None
    ELSE IF token.exp - current_time <= 0
    THEN IF has_refresh THEN None
         ELSE <<[source |-> "OpenAIRE", level |-> "error"]>>
    ELSE IF token.exp - current_time < _EXPIRY_WARNING_SECONDS
    THEN IF has_refresh THEN None
         ELSE <<[source |-> "OpenAIRE", level |-> "warning"]>>
    ELSE None

JwtIdle ==
    /\ jwt_pc = "off"
    /\ jwt_token = [kind |-> "empty", exp |-> 0]
    /\ jwt_now = JwtNow
    /\ has_refresh_token = FALSE
    /\ api_alert = None

JwtInit ==
    /\ jwt_pc = "called"
    /\ jwt_token \in JwtTokens
    /\ jwt_now \in {JwtNow - 1, JwtNow, JwtNow + 1}
    /\ has_refresh_token \in BOOLEAN
    /\ api_alert = None

CheckJwtExpiry ==
    /\ jwt_pc = "called"
    /\ api_alert' = check_jwt_expiry(jwt_token, jwt_now, has_refresh_token)
    /\ jwt_pc' = "returned"
    /\ UNCHANGED <<jwt_token, jwt_now, has_refresh_token>>
    /\ UNCHANGED notJwt

JwtNext ==
    \/ CheckJwtExpiry

\* ------------------------------------------------------------------------
\* Radar: actions
\* ------------------------------------------------------------------------

RadarInit ==
    /\ rpc = "received"
    /\ request \in RequestBodies
    /\ stores \in [patents : BOOLEAN, cordis : BOOLEAN]
    /\ st = [i \in UCs |-> "idle"]
    /\ now = 0
    /\ panels = <<>>
    /\ all_sources = <<>>
    /\ all_methods = <<>>
    /\ all_warnings = <<>>
    /\ data_complete_until = NoYear
    /\ response = NoResponse
    /\ propagated = "none"

\* RadarRequest validation: a body outside the field limits is answered 422
\* and analyze_technology is never entered.
Reject ==
    /\ rpc = "received"
    /\ ~Valid(request)
    /\ rpc' = "rejected"
    /\ response' = [status |-> "422"]
    /\ UNCHANGED notRadar
    /\ UNCHANGED <<request, stores, st, now, panels, all_sources, all_methods,
                   all_warnings, data_complete_until, propagated>>

\* analyze_technology up to the await of gather: composition root, the eight
\* coroutines wrapped in wait_for, all started together.
Dispatch ==
    /\ rpc = "received"
    /\ Valid(request)
    /\ rpc' = "gathering"
    /\ st' = [i \in UCs |-> "running"]
    /\ now' = 0
    /\ UNCHANGED notRadar
    /\ UNCHANGED <<request, stores, panels, all_sources, all_methods,
                   all_warnings, data_complete_until, response, propagated>>

EngineReturns(i) ==
    /\ rpc = "gathering"
    /\ st[i] = "running"
    /\ st' = [st EXCEPT ![i] = "returned"]
    /\ UNCHANGED notRadar
    /\ UNCHANGED <<rpc, request, stores, now, panels, all_sources, all_methods,
                   all_warnings, data_complete_until, response, propagated>>

EngineRaises(i) ==
    /\ rpc = "gathering"
    /\ st[i] = "running"
    /\ st' = [SiblingsAfterFailure(st, i) EXCEPT ![i] = "raised"]
    /\ UNCHANGED notRadar
    /\ UNCHANGED <<rpc, request, stores, now, panels, all_sources, all_methods,
                   all_warnings, data_complete_until, response, propagated>>

\* wait_for: the deadline of task i passes while it is still pending; the
\* task is cancelled and TimeoutError becomes its result.
DeadlineExpires(i) ==
    /\ rpc = "gathering"
    /\ st[i] = "running"
    /\ now >= TimeoutOf(i)
    /\ st' = [SiblingsAfterFailure(st, i) EXCEPT ![i] = "timeout"]
    /\ UNCHANGED notRadar
    /\ UNCHANGED <<rpc, request, stores, now, panels, all_sources, all_methods,
                   all_warnings, data_complete_until, response, propagated>>

NextDeadline == 
    CHOOSE d \in { TimeoutOf(i) : i \in Running(st) } :
        \A i \in Running(st) : d <= TimeoutOf(i)

\* Time passes while tasks are pending; a due timer fires before the clock
\* moves past it.
Tick ==
    /\ rpc = "gathering"
    /\ Running(st) # {}
    /\ now < NextDeadline
    /\ now' = IF now + TickS > NextDeadline THEN NextDeadline ELSE now + TickS
    /\ UNCHANGED notRadar
    /\ UNCHANGED <<rpc, request, stores, st, panels, all_sources, all_methods,
                   all_warnings, data_complete_until, response, propagated>>

\* gather returns; the unpacking loop and the duplicate removal run without
\* suspension, up to the await of get_last_full_year.
Collect ==
    /\ rpc = "gathering"
    /\ Running(st) = {}
    /\ \E g \in {Gathered(st, stores)} :
         IF g.raised # "none"
         THEN /\ propagated' = g.raised
              /\ rpc' = "failed"
              /\ UNCHANGED <<panels, all_sources, all_methods, all_warnings>>
         ELSE \E u \in {Unpack(g.results)} :
              /\ panels' = u.panels
              /\ all_sources' = dict_fromkeys(u.sources)
              /\ all_methods' = dict_fromkeys(u.methods)
              /\ all_warnings' = u.warnings
              /\ rpc' = "probing"
              /\ propagated' = propagated
    /\ UNCHANGED notRadar
    /\ UNCHANGED <<request, stores, st, now, data_complete_until, response>>

\* await patent_repo.get_last_full_year() inside try/except Exception.
Probe ==
    /\ rpc = "probing"
    /\ IF stores.patents
       THEN \E outcome \in ProbeOutcomes :
                data_complete_until' =
                    IF outcome = "year" THEN <<CurrentYear - 1>> ELSE NoYear
       ELSE data_complete_until' = NoYear
    /\ rpc' = "assembling"
    /\ UNCHANGED notRadar
    /\ UNCHANGED <<request, stores, st, now, panels, all_sources, all_methods,
                   all_warnings, response, propagated>>

\* Health alerts and the RadarResponse constructor.
Assemble ==
    /\ rpc = "assembling"
    /\ \E jwt \in JwtAlerts :
        response' =
          [status |-> "200",
           technology |-> request.techLen,
           analysis_period |-> <<CurrentYear - request.years, CurrentYear>>,
           landscape |-> panels[1],
           maturity |-> panels[2],
           competitive |-> panels[3],
           funding |-> panels[4],
           cpc_flow |-> panels[5],
           geographic |-> panels[6],
           research_impact |-> panels[7],
           temporal |-> panels[8],
           explainability |->
             [sources_used |-> all_sources,
              methods |-> all_methods,
              deterministic |-> TRUE,
              warnings |-> all_warnings,
              api_alerts |->
                (IF jwt = "none" THEN <<>>
                 ELSE <<[source |-> "OpenAIRE", level |-> jwt]>>)
                \o detect_runtime_failures(all_warnings),
              data_complete_until |-> data_complete_until]]
    /\ rpc' = "done"
    /\ UNCHANGED notRadar
    /\ UNCHANGED <<request, stores, st, now, panels, all_sources, all_methods,
                   all_warnings, data_complete_until, propagated>>

RadarNext ==
    \/ Reject
    \/ Dispatch
    \/ \E i \in UCs : EngineReturns(i)
    \/ \E i \in UCs : EngineRaises(i)
    \/ \E i \in UCs : DeadlineExpires(i)
    \/ Tick
    \/ Collect
    \/ Probe
    \/ Assemble

RadarStart == RadarInit /\ TokenIdle /\ GleifIdle /\ PapersIdle /\ CountsIdle /\ SamplingIdle /\ DatesIdle /\ FtsIdle /\ SeriesIdle /\ JaccardIdle /\ SelectIdle /\ DegradeIdle /\ MaturityIdle /\ HhiIdle /\ JwtIdle

Spec == RadarStart /\ [][RadarNext]_vars

\* The event loop keeps running whatever is ready: due timers, the
\* continuation of analyze_technology, and the passing of time itself.
RadarProgress ==
    \/ Tick
    \/ \E i \in UCs : DeadlineExpires(i)
    \/ Collect
    \/ Probe
    \/ Assemble

RadarFairness == WF_vars(RadarProgress)

FairSpec == Spec /\ RadarFairness

RadarIdle ==
    /\ rpc = "off"
    /\ request = [techLen |-> 0, years |-> 0]
    /\ stores = [patents |-> FALSE, cordis |-> FALSE]
    /\ st = [i \in UCs |-> "idle"]
    /\ now = 0
    /\ panels = <<>>
    /\ all_sources = <<>>
    /\ all_methods = <<>>
    /\ all_warnings = <<>>
    /\ data_complete_until = NoYear
    /\ response = NoResponse
    /\ propagated = "none"

TokenStart == TokenInit /\ RadarIdle /\ GleifIdle /\ PapersIdle /\ CountsIdle /\ SamplingIdle /\ DatesIdle /\ FtsIdle /\ SeriesIdle /\ JaccardIdle /\ SelectIdle /\ DegradeIdle /\ MaturityIdle /\ HhiIdle /\ JwtIdle

TokenSpec == TokenStart /\ [][TokenNext]_vars

GleifStart == GleifInit /\ RadarIdle /\ TokenIdle /\ PapersIdle /\ CountsIdle /\ SamplingIdle /\ DatesIdle /\ FtsIdle /\ SeriesIdle /\ JaccardIdle /\ SelectIdle /\ DegradeIdle /\ MaturityIdle /\ HhiIdle /\ JwtIdle

GleifSpec == GleifStart /\ [][GleifNext]_vars

PapersStart == PapersInit /\ RadarIdle /\ TokenIdle /\ GleifIdle /\ CountsIdle /\ SamplingIdle /\ DatesIdle /\ FtsIdle /\ SeriesIdle /\ JaccardIdle /\ SelectIdle /\ DegradeIdle /\ MaturityIdle /\ HhiIdle /\ JwtIdle

PapersSpec == PapersStart /\ [][PapersNext]_vars

\* Every page request is answered or fails within the client's TIMEOUT, and
\* the pause between pages ends.
PapersFairness == WF_vars(PapersNext)

PapersFairSpec == PapersSpec /\ PapersFairness

CountsStart == CountsInit /\ RadarIdle /\ TokenIdle /\ GleifIdle /\ PapersIdle /\ SamplingIdle /\ DatesIdle /\ FtsIdle /\ SeriesIdle /\ JaccardIdle /\ SelectIdle /\ DegradeIdle /\ MaturityIdle /\ HhiIdle /\ JwtIdle

CountsSpec == CountsStart /\ [][CountsNext]_vars

SamplingStart == SamplingInit /\ RadarIdle /\ TokenIdle /\ GleifIdle /\ PapersIdle /\ CountsIdle /\ DatesIdle /\ FtsIdle /\ SeriesIdle /\ JaccardIdle /\ SelectIdle /\ DegradeIdle /\ MaturityIdle /\ HhiIdle /\ JwtIdle

SamplingSpec == SamplingStart /\ [][SamplingNext]_vars

DatesStart == DatesInit /\ RadarIdle /\ TokenIdle /\ GleifIdle /\ PapersIdle /\ CountsIdle /\ SamplingIdle /\ FtsIdle /\ SeriesIdle /\ JaccardIdle /\ SelectIdle /\ DegradeIdle /\ MaturityIdle /\ HhiIdle /\ JwtIdle

DatesSpec == DatesStart /\ [][DatesNext]_vars

FtsStart == FtsInit /\ RadarIdle /\ TokenIdle /\ GleifIdle /\ PapersIdle /\ CountsIdle /\ SamplingIdle /\ DatesIdle /\ SeriesIdle /\ JaccardIdle /\ SelectIdle /\ DegradeIdle /\ MaturityIdle /\ HhiIdle /\ JwtIdle

FtsSpec == FtsStart /\ [][FtsNext]_vars

SeriesStart == SeriesInit /\ RadarIdle /\ TokenIdle /\ GleifIdle /\ PapersIdle /\ CountsIdle /\ SamplingIdle /\ DatesIdle /\ FtsIdle /\ JaccardIdle /\ SelectIdle /\ DegradeIdle /\ MaturityIdle /\ HhiIdle /\ JwtIdle

SeriesSpec == SeriesStart /\ [][SeriesNext]_vars

JaccardStart == JaccardInit /\ RadarIdle /\ TokenIdle /\ GleifIdle /\ PapersIdle /\ CountsIdle /\ SamplingIdle /\ DatesIdle /\ FtsIdle /\ SeriesIdle /\ SelectIdle /\ DegradeIdle /\ MaturityIdle /\ HhiIdle /\ JwtIdle

JaccardSpec == JaccardStart /\ [][JaccardNext]_vars

SelectStart == SelectInit /\ RadarIdle /\ TokenIdle /\ GleifIdle /\ PapersIdle /\ CountsIdle /\ SamplingIdle /\ DatesIdle /\ FtsIdle /\ SeriesIdle /\ JaccardIdle /\ DegradeIdle /\ MaturityIdle /\ HhiIdle /\ JwtIdle

SelectSpec == SelectStart /\ [][SelectNext]_vars

DegradeStart == DegradeInit /\ RadarIdle /\ TokenIdle /\ GleifIdle /\ PapersIdle /\ CountsIdle /\ SamplingIdle /\ DatesIdle /\ FtsIdle /\ SeriesIdle /\ JaccardIdle /\ SelectIdle /\ MaturityIdle /\ HhiIdle /\ JwtIdle

DegradeSpec == DegradeStart /\ [][DegradeNext]_vars

MaturityStart == MaturityInit /\ RadarIdle /\ TokenIdle /\ GleifIdle /\ PapersIdle /\ CountsIdle /\ SamplingIdle /\ DatesIdle /\ FtsIdle /\ SeriesIdle /\ JaccardIdle /\ SelectIdle /\ DegradeIdle /\ HhiIdle /\ JwtIdle

MaturitySpec == MaturityStart /\ [][MaturityNext]_vars

HhiStart == HhiInit /\ RadarIdle /\ TokenIdle /\ GleifIdle /\ PapersIdle /\ CountsIdle /\ SamplingIdle /\ DatesIdle /\ FtsIdle /\ SeriesIdle /\ JaccardIdle /\ SelectIdle /\ DegradeIdle /\ MaturityIdle /\ JwtIdle

HhiSpec == HhiStart /\ [][HhiNext]_vars

JwtStart == JwtInit /\ RadarIdle /\ TokenIdle /\ GleifIdle /\ PapersIdle /\ CountsIdle /\ SamplingIdle /\ DatesIdle /\ FtsIdle /\ SeriesIdle /\ JaccardIdle /\ SelectIdle /\ DegradeIdle /\ MaturityIdle /\ HhiIdle

JwtSpec == JwtStart /\ [][JwtNext]_vars

\* ------------------------------------------------------------------------
\* Radar: properties
\* ------------------------------------------------------------------------

ResponseFields ==
    {"status", "technology", "analysis_period", "explainability"}
        \cup Range(panel_fields)

ProvenanceFields ==
    {"sources_used", "methods", "deterministic", "warnings", "api_alerts",
     "data_complete_until"}

Returned(i) == st[i] = "returned"

FailureWarningsOf(i, ws) ==
    { k \in 1..Len(ws) : ws[k].uc = uc_names[i] }

ReportedBy(S, field) ==
    UNION { Range(EngineResult(i, stores)[field]) : i \in S }

SlotWarningCount(stv, i) ==
    IF stv[i] = "returned" THEN Len(EngineResult(i, stores).warnings) ELSE 1

RECURSIVE WarningsBefore(_, _)
WarningsBefore(stv, i) ==
    IF i = 1 THEN 0
    ELSE WarningsBefore(stv, i - 1) + SlotWarningCount(stv, i - 1)

WithoutSlot(ws, stv, i) ==
    SubSeq(ws, 1, WarningsBefore(stv, i))
      \o SubSeq(ws, WarningsBefore(stv, i) + SlotWarningCount(stv, i) + 1, Len(ws))

\* The response parts of the siblings of i agree with the run in which i
\* had returned instead of failing.
SiblingsUnaltered(i) ==
    LET alt == [st EXCEPT ![i] = "returned"]
        u   == Unpack(Gathered(alt, stores).results)
        e   == response.explainability
    IN /\ \A j \in UCs \ {i} :
            /\ response[panel_fields[j]] = u.panels[j]
            /\ Returned(j) =>
                 /\ Range(EngineResult(j, stores).sources)
                        \subseteq Range(e.sources_used)
                 /\ Range(EngineResult(j, stores).methods)
                        \subseteq Range(e.methods)
       /\ WithoutSlot(e.warnings, st, i) = WithoutSlot(u.warnings, alt, i)

RECURSIVE ConcatInOrder(_, _)
ConcatInOrder(i, part) ==
    IF i > 8 THEN <<>> ELSE part[i] \o ConcatInOrder(i + 1, part)

FirstIndex(s, x) == CHOOSE k \in 1..Len(s) : s[k] = x /\ \A m \in 1..(k - 1) : s[m] # x

OrderedSetOf(out, reported) ==
    /\ Range(out) = Range(reported)
    /\ \A p, q \in 1..Len(out) : p # q => out[p] # out[q]
    /\ \A p, q \in 1..Len(out) :
         p < q => FirstIndex(reported, out[p]) < FirstIndex(reported, out[q])

Refreshed(b) == bearer[b] \in {"N1", "N2", "N3", "N4"}

\* C6: concurrent batches that find the access token within 60 s of expiry,
\* with a refresh token configured, send at most one refresh request between
\* them, and all of them then send the same refreshed token.
C6_SingleRefresh ==
    (/\ refresh_configured
     /\ configured_token.id # ""
     /\ configured_token.exp - ClockStart < _TOKEN_MARGIN_S
     /\ refresh_failures = 0) =>
      /\ refresh_requests <= 1
      /\ \A b, c \in Batches :
           (Refreshed(b) /\ Refreshed(c)) => bearer[b] = bearer[c]

\* A step in which the refresh request of batch b is answered by a failure.
RefreshFailureOf(b) ==
    /\ adapter[b].pc = "refreshing"
    /\ adapter'[b].pc # "refreshing"
    /\ refresh_failures' = refresh_failures + 1

\* C25: a failed token refresh (network error, non-2xx, body without
\* access_token) raises nothing and leaves the adapter's token and the
\* module-level cached token as they were; count_by_year then sends the
\* per-year requests with the token the adapter already had.
C25_RefreshFailureKeepsToken ==
    /\ [][\A b \in Batches :
            RefreshFailureOf(b) =>
                /\ adapter'[b] = [pc |-> "batch", token |-> adapter[b].token]
                /\ cached_token' = cached_token]_vars
    /\ [](refresh_failures = refresh_requests =>
            \A b \in Batches :
                bearer[b] \in {"unsent", configured_token.id})

\* Both batches' refresh requests failed and both sent their year requests
\* with the configured access token.
C25_Witness ==
    /\ refresh_failures = MaxBatches
    /\ configured_token.id # ""
    /\ \A b \in Batches : adapter[b].pc = "done" /\ bearer[b] = configured_token.id

\* ------------------------------------------------------------------------
\* Gleif: properties
\* ------------------------------------------------------------------------

\* C7: at any time at most one outbound entity-resolution request is in
\* flight, and every request that goes out does so at least 1 s (PacingMs)
\* after the previous outbound call ended, whether that call succeeded or
\* failed and whichever mix of resolve_entity and resolve_batch callers
\* is running.
C7_OneInFlightPaced ==
    /\ Cardinality(InFlight) <= 1
    /\ last_gap = -1 \/ last_gap >= PacingMs

\* A batch's request is in flight a full pacing delay after the previous
\* call ended, while a resolve_entity caller queues for the semaphore.
C7_Witness ==
    /\ last_gap >= PacingMs
    /\ \E c \in InFlight : caller[c].kind = "batch"
    /\ \E c \in Waiting : caller[c].kind = "entity"

\* An outbound call is under way only while the cache holds no entry of at
\* most _CACHE_TTL_DAYS days under the key of its name.
C8_CallOnlyOnMiss ==
    \A c \in InFlight : _get_cached(caller[c].name).kind = "miss"

\* A resolve_entity call begun after a lookup under its key completed, no
\* more than _CACHE_TTL_DAYS before, made no outbound call and returned
\* that lookup's answer.
C8_LaterCallsFromCache ==
    \A c \in Callers :
        (caller[c].kind = "entity" /\ caller[c].pc = "returned") =>
            \A answer \in caller[c].seen :
                caller[c].sent = 0 /\ caller[c].ret = answer

\* A resolve_entity call answered without an outbound call had a completed
\* lookup of at most _CACHE_TTL_DAYS days to answer from: an older entry
\* counts as a miss.
C8_ExpiredIsMiss ==
    \A c \in Callers :
        (caller[c].kind = "entity" /\ caller[c].pc = "returned"
            /\ caller[c].sent = 0) => caller[c].seen # {}

\* C8: resolve_entity(name) makes an outbound call only when the cache holds
\* no entry younger than 90 days under the upper-cased, trimmed name; after
\* a lookup completed with a positive or a negative answer every later
\* resolve_entity under the same key within 90 days makes no outbound call
\* and returns the same answer; an entry older than 90 days is a miss.
C8_CacheContract ==
    /\ C8_CallOnlyOnMiss
    /\ C8_LaterCallsFromCache
    /\ C8_ExpiredIsMiss

\* Callers c and d are resolve_entity calls under the same cache key.
SameKeyEntityCalls(c, d) ==
    /\ c # d
    /\ caller[c].kind = "entity" /\ caller[d].kind = "entity"
    /\ caller[c].pc # "idle" /\ caller[d].pc # "idle"
    /\ CacheKey(caller[c].name) = CacheKey(caller[d].name)

\* C27: of several resolve_entity calls for the same uncached name that run
\* concurrently at most one makes an outbound call; a caller that waited
\* while another's call wrote the cache entry is answered from that entry
\* and sends nothing.
C27_OneCallPerName ==
    \A c, d \in Callers :
        (/\ SameKeyEntityCalls(c, d)
         /\ caller[d].sent > 0
         /\ caller[d].pc = "returned"
         /\ _get_cached(caller[d].name).kind # "miss") =>
            /\ caller[c].sent = 0
            /\ caller[c].pc = "returned" => caller[c].ret = caller[d].ret

\* C9: resolve_batch(names, max_api_calls) makes at most max_api_calls
\* outbound calls, returns a mapping with exactly one key per distinct input
\* name, maps every name found in the cache or looked up within the cap to
\* its lookup result, and maps to null only names with no match, with a
\* failed lookup, or left pending beyond the cap.
C9_BatchCap ==
    \A c \in Callers :
        caller[c].kind = "batch" =>
            /\ caller[c].sent <= caller[c].max_api_calls
            /\ caller[c].pc = "returned" =>
                 /\ DOMAIN caller[c].results = Range(caller[c].names)
                 /\ \A n \in DOMAIN caller[c].got :
                        caller[c].results[n] = caller[c].got[n]
                 /\ \A n \in DOMAIN caller[c].results :
                        caller[c].results[n] = None =>
                            \/ n \in DOMAIN caller[c].got /\ caller[c].got[n] = None
                            \/ n \in BeyondCap(caller[c])

\* ------------------------------------------------------------------------
\* Papers: properties
\* ------------------------------------------------------------------------

\* Runs of consecutive pages, each from the first paper of its page, and
\* only the last one possibly cut short.
PageOrder(runs) ==
    /\ \A j \in 1..Len(runs) : runs[j].first = 1 /\ runs[j].last >= 1
    /\ \A j \in 1..Len(runs) - 1 : runs[j].page < runs[j + 1].page

IsPrefix(s, t) ==
    /\ Len(s) <= Len(t)
    /\ \A j \in 1..Len(s) :
         /\ s[j].page = t[j].page
         /\ s[j].first = t[j].first
         /\ IF j < Len(s) THEN s[j].last = t[j].last ELSE s[j].last <= t[j].last

C10_Safe ==
    /\ ppc = "returned" =>
         /\ Count(returned) <= limit
         /\ PageOrder(returned)
         /\ IsPrefix(returned, all_papers)
    /\ ppc = "requesting" =>
         /\ req_limit >= 1 /\ req_limit <= PAGE_SIZE
         /\ Count(all_papers) < limit
         /\ requests > 1 => (papers > 0 /\ offset < total)
    /\ requests <= limit

\* C10: search_papers never returns more than limit papers, returns them in
\* page order, requests at most 100 papers per page, sends no further page
\* request once limit papers are collected, the offset has reached the
\* remote total or a page came back empty, and returns after at most limit
\* requests whatever the remote answers.
C10_BoundedPagination ==
    /\ []C10_Safe
    /\ <>(ppc = "returned")

\* Returned after several pages, the last of which over-delivered: the
\* collected papers exceed the limit and the result is cut to it.
C10_Witness ==
    /\ ppc = "returned"
    /\ requests >= 2
    /\ Count(all_papers) > limit
    /\ Count(returned) = limit

\* C11: when a page request fails after k pages were fetched, search_papers
\* raises nothing and returns exactly the papers of those k pages, all of
\* them and nothing else (the empty list when k = 0).
C11_FailureReturnsFetched ==
    /\ ppc # "raised"
    /\ (ppc = "returned" /\ requests = Len(all_papers) + 1) =>
          returned = all_papers

\* The third request failed after two pages that both held papers: the
\* latest answer was not empty, yet the last request added no page.
C11_Witness ==
    /\ ppc = "returned"
    /\ requests = 3
    /\ Len(all_papers) = 2
    /\ papers > 0
    /\ returned = all_papers

\* ------------------------------------------------------------------------
\* Counts: properties
\* ------------------------------------------------------------------------

SucceededYears ==
    { y \in DOMAIN cy_results : cy_results[y].state = "ok" }

\* C12: count_by_year returns one (year, count) entry for exactly the years
\* of [start, end] whose request succeeded, in strictly ascending year
\* order whatever the order of arrival; a failing year is skipped without
\* failing the batch, and an empty range yields the empty list.
C12_YearlySortedSucceeded ==
    /\ cy_pc # "raised"
    /\ cy_pc = "returned" =>
         /\ \A j \in 1..Len(yearly) - 1 : yearly[j].year < yearly[j + 1].year
         /\ { yearly[j].year : j \in 1..Len(yearly) } = SucceededYears
         /\ SucceededYears \subseteq cy_range.start..cy_range.end
         /\ \A j \in 1..Len(yearly) :
                yearly[j].count = cy_results[yearly[j].year].count
         /\ cy_range.start > cy_range.end => yearly = <<>>

\* Three years asked, answered newest first, the middle one failing: two
\* entries come back, oldest first.
C12_Witness ==
    /\ cy_pc = "returned"
    /\ cy_arrivals = <<FirstYear + 2, FirstYear + 1, FirstYear>>
    /\ cy_results[FirstYear + 1].state = "failed"
    /\ Len(yearly) = 2
    /\ yearly[1].year = FirstYear

\* ------------------------------------------------------------------------
\* Token: refresh condition
\* ------------------------------------------------------------------------

\* The batch b sends its refresh request in this step.
SendsRefresh(b) ==
    adapter[b].pc # "refreshing" /\ adapter'[b].pc = "refreshing"

\* C13: a refresh request is sent only if the current access token has
\* fewer than 60 s of validity left and a refresh token is configured; with
\* no refresh token, or with 60 s or more left on the current or on the
\* cached token, none is sent.
C13_RefreshOnlyWhenDue ==
    [][\A b \in Batches :
          SendsRefresh(b) =>
              /\ refresh_configured
              /\ _token_expiry(adapter[b].token) - tclock < _TOKEN_MARGIN_S
              /\ cached_token.id # "" =>
                    cached_token.exp - tclock < _TOKEN_MARGIN_S]_vars

\* ---------------------------------------------------------------------------
\* Sampling: properties
\* ---------------------------------------------------------------------------

\* The call is one of a population larger than a valid target.
Sampled == Len(patent_data) > target_size /\ target_size >= 1

CensusYears == {y \in DOMAIN strata_sizes : strata_sizes[y] <= census_threshold}

CensusItems == SumOver(strata_sizes, CensusYears)

\* C14: for a population larger than target_size (target_size >= 1) the
\* allocations of _allocate_proportional sum to target_size and
\* stratified_sample returns exactly target_size records, unless the census
\* strata alone hold more records than target_size; then every census stratum
\* is allocated and sampled in full.
C14_SampleSizeIsTarget ==
    /\ (Sampled /\ sp_pc \in {"allocated", "returned"}) =>
          /\ CensusItems <= target_size =>
                SumOver(allocation, DOMAIN allocation) = target_size
          /\ CensusItems > target_size =>
                \A y \in CensusYears : allocation[y] = strata_sizes[y]
    /\ (Sampled /\ sp_pc = "returned") =>
          /\ CensusItems <= target_size => sample_size = target_size
          /\ CensusItems > target_size =>
                \A y \in CensusYears : sample_count[y] = strata_sizes[y]

\* A sampled call whose floored quotas fall short of the target by one record,
\* with a census stratum beside two proportional ones.
C14_Witness ==
    /\ sp_pc = "returned"
    /\ Sampled
    /\ CensusYears # {} /\ CensusItems < target_size
    /\ SumOver(FlooredAllocation(strata_sizes, target_size, census_threshold),
               DOMAIN strata_sizes) < target_size
    /\ sample_size = target_size

\* C15: every year stratum of N_h records is allocated 0 <= n_h <= N_h records,
\* also after the largest-remainder correction, and every stratum of at most
\* census_threshold records is taken in full: n_h = N_h and all of its records
\* are in the sample.
C15_AllocationWithinStratum ==
    /\ (Sampled /\ sp_pc \in {"allocated", "returned"}) =>
          \A y \in DOMAIN strata_sizes :
             /\ 0 <= allocation[y] /\ allocation[y] <= strata_sizes[y]
             /\ y \in CensusYears => allocation[y] = strata_sizes[y]
    /\ sp_pc = "returned" =>
          \A y \in DOMAIN strata_sizes :
             /\ 0 <= sample_count[y] /\ sample_count[y] <= strata_sizes[y]
             /\ y \in CensusYears => sample_count[y] = strata_sizes[y]

\* A sampled call with a stratum of exactly census_threshold records and a
\* stratum whose quota was raised by the largest-remainder correction.
C15_Witness ==
    /\ sp_pc = "returned"
    /\ Sampled
    /\ \E y \in DOMAIN strata_sizes :
          strata_sizes[y] = census_threshold /\ sample_count[y] = strata_sizes[y]
    /\ \E y \in DOMAIN strata_sizes \ CensusYears :
          allocation[y] = floored(strata_sizes, target_size, census_threshold, y) + 1

\* The distance of a - b from zero.
Distance(a, b) == IF a >= b THEN a - b ELSE b - a

DatedRecords == {d \in stored_dates : Len(d) >= 7}

\* The maximum stored date.
MaxDate == CHOOSE d \in DatedRecords : \A e \in DatedRecords : e = d \/ TextLess(e, d)

\* A date string YYYY-MM or YYYY-MM-DD with a month of the calendar.
WellFormed(d) ==
    /\ Len(d) \in {7, 10}
    /\ IsDigits(SubSeq(d, 1, 4))
    /\ d[5] = "-"
    /\ IsDigits(SubSeq(d, 6, 7))
    /\ DecimalValue(SubSeq(d, 6, 7)) \in 1..12
    /\ Len(d) = 10 => d[8] = "-" /\ IsDigits(SubSeq(d, 9, 10))

LastFullYearOf(d) ==
    IF DecimalValue(SubSeq(d, 6, 7)) >= 11 THEN <<DecimalValue(SubSeq(d, 1, 4))>>
    ELSE <<DecimalValue(SubSeq(d, 1, 4)) - 1>>

\* C17: get_last_full_year of the patent store and of the project store
\* returns the year of the maximum stored date when its month is >= 11, that
\* year minus one otherwise, and null when the store holds no dated record or
\* the maximum date is malformed.
C17_LastFullYear ==
    lfy_pc = "returned" =>
        IF DatedRecords = {} THEN last_full_year = None
        ELSE IF ~WellFormed(MaxDate) THEN last_full_year = None
        ELSE last_full_year = LastFullYearOf(MaxDate)

\* ---------------------------------------------------------------------------
\* Fts: properties
\* ---------------------------------------------------------------------------

\* The text between the outer quotes of an FTS5 phrase with every doubled
\* quote read as one quote: <<text>>, or None when a quote stands alone.
RECURSIVE PhraseText(_)
PhraseText(inner) ==
    IF inner = <<>> THEN <<inner>>
    ELSE IF Head(inner) # "\""
         THEN LET rest == PhraseText(Tail(inner))
              IN  IF rest = None THEN None ELSE << <<Head(inner)>> \o rest[1] >>
         ELSE IF Len(inner) >= 2 /\ inner[2] = "\""
              THEN LET rest == PhraseText(SubSeq(inner, 3, Len(inner)))
                   IN  IF rest = None THEN None ELSE << <<"\"">> \o rest[1] >>
              ELSE None

\* param is the phrase of the text: wrapped in double quotes, every embedded
\* double quote doubled.
IsPhraseOf(param, text) ==
    /\ Len(param) >= 2
    /\ param[1] = "\"" /\ param[Len(param)] = "\""
    /\ PhraseText(SubSeq(param, 2, Len(param) - 1)) = <<text>>

\* C18: every technology string that reaches a full-text MATCH in either
\* repository is wrapped in double quotes with every embedded double quote
\* doubled.
C18_MatchIsPhraseQuoted ==
    \A b \in matched : IsPhraseOf(b.param, fts_query)

\* ---------------------------------------------------------------------------
\* Series: properties
\* ---------------------------------------------------------------------------

\* C19: in every panel that reports a per-year series together with a total
\* (landscape: patents, projects and publications; funding: EUR; research
\* impact: paper counts) the per-year values of the series sum to the total.
C19_SeriesSumToTotal ==
    se_pc = "returned" =>
        /\ SumField(landscape_panel.time_series, "patents")
              = landscape_panel.total_patents
        /\ SumField(landscape_panel.time_series, "projects")
              = landscape_panel.total_projects
        /\ SumField(landscape_panel.time_series, "publications")
              = landscape_panel.total_publications
        /\ SumField(funding_panel.time_series, "funding")
              = funding_panel.total_funding_eur
        /\ SumField(research_panel.citation_trend, "paper_count")
              = research_panel.total_papers

\* ---------------------------------------------------------------------------
\* Jaccard: properties
\* ---------------------------------------------------------------------------

\* m is a square matrix of size n, symmetric, with a zero diagonal and every
\* entry between 0 and 1 (10000 ten-thousandths).
IsJaccardMatrix(m, n) ==
    /\ Len(m) = n
    /\ \A i \in 1..n : Len(m[i]) = n
    /\ \A i, j \in 1..n : m[i][j] = m[j][i]
    /\ \A i \in 1..n : m[i][i] = 0
    /\ \A i, j \in 1..n : 0 <= m[i][j] /\ m[i][j] <= 10000

C29_SqlMatrixEqualsInMemory ==
    (cf_pc = "returned" /\ sq_pc = "returned" /\ labels = sql_top_codes) =>
        matrix = sql_matrix

\* Both functions have returned over the same three codes, one pair with a
\* Jaccard value strictly between 0 and 1 and one pair that never occurs
\* together.
C29_Witness ==
    /\ cf_pc = "returned" /\ sq_pc = "returned"
    /\ labels = sql_top_codes /\ Len(labels) = 3
    /\ matrix = sql_matrix
    /\ \E i, j \in 1..3 : sql_matrix[i][j] > 0 /\ sql_matrix[i][j] < 10000
    /\ \E i, j \in 1..3 : i # j /\ sql_matrix[i][j] = 10000

\* ------------------------------------------------------------------------
\* Select: properties
\* ------------------------------------------------------------------------

\* Floor of step/2 + i * step with step = total / n, in exact arithmetic.
MidpointFloor(length, n, i) == ((2 * i + 1) * length) \div (2 * n)

\* C28: for 0 < n < N, _systematic_select returns exactly n pairwise
\* distinct items, the i-th at position floor(step/2 + i*step) with
\* step = N/n, every position within 0..N-1 and strictly increasing.
C28_MidpointPositions ==
    (sel_pc = "returned" /\ 0 < sel_n /\ sel_n < sel_total) =>
        /\ Len(selected) = sel_n
        /\ \A k \in 1..sel_n :
             /\ selected[k] = MidpointFloor(sel_total, sel_n, k - 1)
             /\ selected[k] \in 0..(sel_total - 1)
        /\ \A k \in 1..(sel_n - 1) : selected[k] < selected[k + 1]

\* ------------------------------------------------------------------------
\* Degrade: properties
\* ------------------------------------------------------------------------

\* The warning a panel gives for a failure of the adapter.
DegradationWarning(f) ==
    IF f.adapter = "openaire"
    THEN "Query 'publication_years' fehlgeschlagen"
    ELSE "Semantic Scholar Abfrage fehlgeschlagen"

PanelWarnings(f) ==
    IF f.adapter = "openaire" THEN ls_warnings ELSE ri_warnings

\* C26: whenever a call to an external adapter fails during a request (the
\* publication count of some year, a page of the paper search), the warnings
\* of the affected panel, and hence the provenance warnings of the response,
\* contain an entry for that failure.
C26_FailureSurfaced ==
    provenance_warnings # None =>
        \A f \in adapter_failures :
            /\ DegradationWarning(f) \in Range(PanelWarnings(f))
            /\ DegradationWarning(f) \in Range(provenance_warnings[1])

\* ------------------------------------------------------------------------
\* Maturity: properties
\* ------------------------------------------------------------------------

\* C22: every maturity panel returned by analyze_maturity carries a
\* confidence within [0.1, 0.95], whether it comes from the S-curve fit or
\* from the fallback classification.
C22_ConfidenceInRange ==
    maturity_panel # None =>
        /\ maturity_panel[1].confidence >= 10
        /\ maturity_panel[1].confidence <= 95

\* The last year of the request window that the patent store covers fully.
LastFittedYear == Min(mat_end_year, mat_last_full[1])

\* Patents counted up to and including the year.
CumulativeUpTo(year) ==
    SumOver(mat_patent_years, { y \in DOMAIN mat_patent_years : y <= year })

\* The store was asked for its last full year and named one.
LastFullYearKnown ==
    /\ mat_db_available
    /\ mat_last_full # None
    /\ "Patent-Abfrage fehlgeschlagen" \notin Range(mat_warnings)

C21_HhiRange ==
    hhi # None =>
        LET shares == hhi_shares[1]
            full == 10000 * hhi[1].den * hhi[1].den
        IN  /\ 0 <= hhi[1].value
            /\ hhi[1].value <= full
            /\ hhi[1].value = full <=>
                 \E i \in DOMAIN shares.nums : shares.nums[i] = shares.den

\* The engine's shares of three actors of which one has all the activity:
\* the index is 10000.
C21_Witness ==
    /\ hhi # None
    /\ Len(hhi_shares[1].nums) = MaxActors
    /\ hhi_shares[1].den = SumSeq(hhi_values)
    /\ hhi_shares[1].den # ShareUnits
    /\ \E i \in DOMAIN hhi_shares[1].nums : hhi_shares[1].nums[i] = hhi_shares[1].den
    /\ hhi[1].value = 10000 * hhi[1].den * hhi[1].den

\* ------------------------------------------------------------------------
\* Jwt: properties
\* ------------------------------------------------------------------------

\* C23: on a JWT with an exp claim and no refresh token configured,
\* check_jwt_expiry returns an error alert when the token has expired, a
\* warning when fewer than 3 days remain, and no alert otherwise; with a
\* refresh token configured, or for an empty or non-JWT token, it returns
\* no alert.
C23_JwtAlertLevels ==
    jwt_pc = "returned" =>
        LET remaining == jwt_token.exp - jwt_now IN
        IF jwt_token.kind = "jwt" /\ ~has_refresh_token
        THEN /\ remaining <= 0 =>
                  api_alert # None /\ api_alert[1].level = "error"
             /\ (remaining > 0 /\ remaining < 3 * 24 * 3600) =>
                  api_alert # None /\ api_alert[1].level = "warning"
             /\ remaining >= 3 * 24 * 3600 => api_alert = None
        ELSE api_alert = None

\* A token with one second less than three days left, checked without a
\* refresh token, draws a warning.
C23_Witness ==
    /\ jwt_pc = "returned"
    /\ jwt_token.kind = "jwt"
    /\ ~has_refresh_token
    /\ jwt_token.exp - jwt_now = 3 * 24 * 3600 - 1
    /\ api_alert = <<[source |-> "OpenAIRE", level |-> "warning"]>>

====
